---- MODULE Spec2Model ----
(***************************************************************************)
(* Fleet dashboard (assets/js/modules/dashboard/index.js) and the robot    *)
(* terminal component (assets/js/components/battery-pill-component.js).    *)
(*                                                                         *)
(* JavaScript runs one task at a time: an action of this module is one     *)
(* run-to-completion segment, from the event that resumes the code (a user *)
(* event, a timer, a network completion) to the point where every          *)
(* continuation it made runnable is suspended on an await again.           *)
(***************************************************************************)
EXTENDS Integers, Sequences, FiniteSets, TLC

VARIABLES
  state,       \* the dashboard's `state` object (index.js:620-660), the fields modelled
  testRun,     \* locals of the runManualTests call in progress (index.js:2956-2966)
  fixRun,      \* locals of the runAutoFixCandidate call in progress (index.js:2217-2226)
  onlineRun,   \* locals of the runOnlineCheckForAllRobots call in progress
  syncRun,     \* the refreshRuntimeStateFromBackend call in progress, with observations
  term,        \* fields of the RobotTerminalComponent
  sockets,     \* the WebSocket objects the component created
  sessions,    \* the POST .../session requests the component issued
  callers      \* suspended async calls of the component (connect, runCommand, reconnect)

fleetVars == <<state, testRun, fixRun, onlineRun, syncRun>>
termVars == <<term, sockets, sessions, callers>>
vars == <<state, testRun, fixRun, onlineRun, syncRun, term, sockets, sessions, callers>>

----------------------------------------------------------------------------
(* Bounds of the model *)

MaxRobots == 2
MaxParallelism == 2
MaxCommands == 1

Robots == 1..MaxRobots

(* Program constants *)

FLEET_PARALLELISM_MIN == 1
FLEET_PARALLELISM_MAX == 100
FLEET_PARALLELISM_DEFAULT == 8

Min(a, b) == IF a <= b THEN a ELSE b
Max(a, b) == IF a >= b THEN a ELSE b

RECURSIVE SeqToSet(_)
SeqToSet(s) == IF s = <<>> THEN {} ELSE {Head(s)} \cup SeqToSet(Tail(s))

(* The sequences over S without a repeated element *)
DistinctSeqs(S) ==
  {s \in UNION {[1..n -> S] : n \in 0..Cardinality(S)} :
     \A i, j \in DOMAIN s : i # j => s[i] # s[j]}

----------------------------------------------------------------------------
(* JavaScript values where their type matters: a number in tenths (or NaN, or an *)
(* infinity), a string, a boolean, null, undefined                               *)

JsNumber(tenths) == [type |-> "number", finite |-> TRUE, tenths |-> tenths, text |-> ""]
JsNaN == [type |-> "number", finite |-> FALSE, tenths |-> 0, text |-> "NaN"]
JsInfinity == [type |-> "number", finite |-> FALSE, tenths |-> 0, text |-> "Infinity"]
JsString(text) == [type |-> "string", finite |-> FALSE, tenths |-> 0, text |-> text]
JsTrue == [type |-> "boolean", finite |-> FALSE, tenths |-> 0, text |-> "true"]
JsNull == [type |-> "null", finite |-> FALSE, tenths |-> 0, text |-> ""]
JsUndefined == [type |-> "undefined", finite |-> FALSE, tenths |-> 0, text |-> ""]

(* Number(value): the numeric strings of the model, the empty string, null and *)
(* true convert to a number, the rest to NaN                                   *)
Number(value) ==
  IF value.type = "number" THEN value
  ELSE IF value.type = "null" THEN JsNumber(0)
  ELSE IF value.type = "boolean" THEN JsNumber(10)
  ELSE IF value.type = "string"
  THEN (IF value.text = "" THEN JsNumber(0)
        ELSE IF value.text = "3" THEN JsNumber(30)
        ELSE IF value.text = "2.5" THEN JsNumber(25)
        ELSE IF value.text = "150" THEN JsNumber(1500)
        ELSE JsNaN)
  ELSE JsNaN

(* Math.round: the nearest integer, a half goes up *)
MathRound(tenths) == (tenths + 5) \div 10

----------------------------------------------------------------------------
(* Status vocabulary and robot records *)

Statuses == {"ok", "error"}

(* A normalisation that ignores the casing of the status *)
normalizeStatusIgnoringCase(value) ==
  IF value = "ok" \/ value = "OK" THEN "ok"
  ELSE IF value = "error" \/ value = "Error" THEN "error"
  ELSE "warning"

(* normalizeStatus for a string *)
normalizeStatus(value) ==
  IF value = "ok" \/ value = "warning" \/ value = "error" THEN value ELSE "warning"

(* normalizeStatus for any value: === holds between values of one type only *)
normalizeStatusValue(value) ==
  IF value.type = "string" THEN JsString(normalizeStatus(value.text)) ELSE JsString("warning")

IdleActivity == [searching |-> FALSE, testing |-> FALSE]
Activities == {IdleActivity, [searching |-> FALSE, testing |-> TRUE]}

normalizeRobotActivity(raw) == [searching |-> raw.searching, testing |-> raw.testing]

TestIds == {"online", "battery"}
TestMaps == [TestIds -> Statuses]
RobotRecords == [present : {TRUE}, tests : TestMaps, activity : Activities]

(* The place of a robot ID that has no record in state.robots *)
AbsentRobot ==
  [present |-> FALSE, tests |-> [t \in TestIds |-> "warning"], activity |-> IdleActivity]

(* What GET /api/robots reports for one robot: no entry (present = FALSE), or an  *)
(* entry with its tests (each with a source normalizeRuntimeTestUpdate accepts or *)
(* not) and its activity.                                                         *)
LiveTests == [TestIds -> [status : Statuses, source : {"live"}]]
LiveRobots == [present : {TRUE}, tests : LiveTests, activity : Activities]
LiveLists == [Robots -> LiveRobots]

(* The same with results that carry no source next to results of the live source *)
SourcedLiveTests == [TestIds -> [status : Statuses, source : {"live", ""}]]
SourcedLiveLists ==
  [Robots -> [present : {TRUE}, tests : SourcedLiveTests, activity : Activities]]

----------------------------------------------------------------------------
(* Fleet parallelism *)

(* An input of the parallelism slider or of local storage: a number, or not one *)
ParallelismInputs == {JsNumber(10 * k) : k \in 0..MaxParallelism}

(* What else local storage, the slider or the backend may hand in: fractions,   *)
(* numbers out of range, strings, null, undefined                               *)
ClampInputs ==
  {JsNumber(t) : t \in {-25, -5, 0, 4, 5, 10, 14, 25, 1000, 1004, 1005, 1500}}
    \cup {JsNaN, JsInfinity, JsNull, JsUndefined}
    \cup {JsString(text) : text \in {"", "3", "2.5", "150", "abc"}}

clampFleetParallelism(value) ==
  LET numeric == IF Number(value).finite THEN MathRound(Number(value).tenths)
                 ELSE FLEET_PARALLELISM_DEFAULT
  IN Max(FLEET_PARALLELISM_MIN, Min(numeric, FLEET_PARALLELISM_MAX))

getFleetParallelism(st) == clampFleetParallelism(JsNumber(10 * st.fleetParallelism))

----------------------------------------------------------------------------
(* Activity flags and countdowns *)

(* A precedence test that leaves fixingRobotIds out; the properties of the *)
(* reconciler must tell it from the one below                              *)
HasLocalPriorityActivityNoFixing(st, id) ==
  \/ id \in st.testingRobotIds
  \/ id \in st.searchingRobotIds

HasLocalPriorityActivity(st, id) ==
  \/ id \in st.testingRobotIds
  \/ id \in st.searchingRobotIds
  \/ id \in st.fixingRobotIds

LocalActive(st) == {id \in Robots : HasLocalPriorityActivity(st, id)}

setRobotTesting(st, id, isTesting) ==
  IF isTesting
  THEN [st EXCEPT !.testingRobotIds = @ \cup {id}, !.testingCountdowns[id] = "scanning"]
  ELSE [st EXCEPT !.testingRobotIds = @ \ {id}, !.testingCountdowns[id] = "none"]

setRobotSearching(st, id, isSearching) ==
  IF isSearching
  THEN [st EXCEPT !.searchingRobotIds = @ \cup {id}, !.testingCountdowns[id] = "finding"]
  ELSE [st EXCEPT !.searchingRobotIds = @ \ {id}, !.testingCountdowns[id] = "none"]

setRobotFixing(st, id, isFixing) ==
  IF isFixing
  THEN [st EXCEPT !.fixingRobotIds = @ \cup {id}, !.testingCountdowns[id] = "fixing"]
  ELSE [st EXCEPT !.fixingRobotIds = @ \ {id}, !.testingCountdowns[id] = "none"]

setRobotSearchingBulk(st, ids, isSearching) ==
  IF isSearching
  THEN [st EXCEPT !.searchingRobotIds = @ \cup ids,
                  !.testingCountdowns = [r \in Robots |-> IF r \in ids THEN "finding" ELSE @[r]]]
  ELSE [st EXCEPT !.searchingRobotIds = @ \ ids,
                  !.testingCountdowns = [r \in Robots |-> IF r \in ids THEN "none" ELSE @[r]]]

----------------------------------------------------------------------------
(* runManualTests: a bounded pool of workers over a queue of robot IDs *)

IdleWorkers == <<>>
IdleTestRun ==
  [active |-> FALSE, runIds |-> <<>>, parallelism |-> 0, workerCount |-> 0, queue |-> <<>>,
   workers |-> IdleWorkers, successCount |-> 0, failureCount |-> 0,
   invoked |-> [r \in Robots |-> 0], skippedIds |-> {}, repeatedIds |-> {},
   uncounted |-> 0]

(* What a batch that resolves leaves behind for observation: the IDs of its list *)
(* the per-robot operation was never invoked for, and the IDs it was invoked for *)
(* more often than the list names them. invoked counts the invocations.          *)
SkippedIds(ids, invoked) == {r \in SeqToSet(ids) : invoked[r] = 0}
RepeatedIds(ids, invoked) ==
  {r \in Robots : invoked[r] > (IF r \in SeqToSet(ids) THEN 1 ELSE 0)}

(* and, from the counters the completion message reports (index.js:3089-3095, *)
(* 2253-2261), the number of queued IDs counted neither as a success nor as a *)
(* failure (negative when IDs were counted more than once)                    *)
Uncounted(run, ids) == Len(ids) - run.successCount - run.failureCount

(* A pool with one worker per ID, whatever the parallelism *)
WorkerCountPerId(parallelism, n) == Max(1, n)

(* index.js:2958 and index.js:2219 *)
WorkerCount(parallelism, n) == Max(1, Min(parallelism, n))

(* A shift that drops the ID behind the head as well *)
QueueShiftTwo(queue) == IF Len(queue) >= 2 THEN Tail(Tail(queue)) ELSE <<>>

(* queue.shift() *)
QueueShift(queue) == Tail(queue)

SetOnline(st, id, status) == [st EXCEPT !.robots[id].tests["online"] = status]

(* processOneRobot up to its first await: the online pre-check of a robot that is *)
(* not online (index.js:2978-2989), or else the test run (index.js:3026-3042).    *)
(* A start of the test request that does not mark the robot as testing *)
StartTestRequestUnmarked(pr, w) ==
  [st |-> pr.st, run |-> [pr.run EXCEPT !.workers[w].pc = "testing"]]

StartTestRequest(pr, w) ==
  [st |-> setRobotTesting(pr.st, pr.run.workers[w].robot, TRUE),
   run |-> [pr.run EXCEPT !.workers[w].pc = "testing"]]

(* A processOneRobot that returns for a missing robot without counting it *)
BeginProcessOneRobotUncounted(pr, w) ==
  LET id == pr.run.workers[w].robot
  IN IF ~pr.st.robots[id].present
     THEN [pr EXCEPT !.run.workers[w].pc = "notfound"]
     ELSE IF normalizeStatus(pr.st.robots[id].tests["online"]) # "ok"
     THEN [st |-> setRobotSearching(pr.st, id, TRUE),
           run |-> [pr.run EXCEPT !.workers[w].pc = "precheck"]]
     ELSE StartTestRequest(pr, w)

(* A robot that is not in state.robots is counted as a failure and the function *)
(* returns (index.js:2968-2976): the worker resumes in a later turn             *)
BeginProcessOneRobot(pr, w) ==
  LET id == pr.run.workers[w].robot
      currentOnlineStatus == normalizeStatus(pr.st.robots[id].tests["online"])
  IN IF ~pr.st.robots[id].present
     THEN [pr EXCEPT !.run.failureCount = @ + 1, !.run.workers[w].pc = "notfound"]
     ELSE IF currentOnlineStatus # "ok"
     THEN [st |-> setRobotSearching(pr.st, id, TRUE),
           run |-> [pr.run EXCEPT !.workers[w].pc = "precheck"]]
     ELSE StartTestRequest(pr, w)

(* One turn of a worker's while loop (index.js:3081-3085): take the next ID and *)
(* start its operation, or end when the queue is empty.                         *)
TestWorkerLoop(pr, w) ==
  IF pr.run.queue = <<>>
  THEN [pr EXCEPT !.run.workers[w] = [pc |-> "done", robot |-> 0]]
  ELSE LET nextRobotId == Head(pr.run.queue)
       IN BeginProcessOneRobot(
            [pr EXCEPT !.run.queue = QueueShift(@),
                       !.run.workers[w] = [pc |-> "start", robot |-> nextRobotId],
                       !.run.invoked[nextRobotId] = @ + 1], w)

(* A launch that starts the first worker only *)
LaunchFirstTestWorker(pr, w) ==
  IF w > 1 THEN pr ELSE TestWorkerLoop(pr, w)

(* Array.from({ length: workerCount }, ...): every worker runs up to its first *)
(* await, in order (index.js:3080-3086)                                        *)
RECURSIVE LaunchTestWorkers(_, _)
LaunchTestWorkers(pr, w) ==
  IF w > pr.run.workerCount THEN pr
  ELSE LaunchTestWorkers(TestWorkerLoop(pr, w), w + 1)

(* A batch that resolves as soon as one of its workers has returned *)
TestRunSettleAny(pr) ==
  IF \E w \in DOMAIN pr.run.workers : pr.run.workers[w].pc = "done"
  THEN [st |-> [pr.st EXCEPT !.isTestRunInProgress = FALSE],
        run |-> [IdleTestRun EXCEPT !.skippedIds = SkippedIds(pr.run.runIds, pr.run.invoked),
                                    !.repeatedIds = RepeatedIds(pr.run.runIds, pr.run.invoked),
                                    !.uncounted = Uncounted(pr.run, pr.run.runIds)]]
  ELSE pr

(* await Promise.all(workers) and the finally block (index.js:3087-3113) *)
TestRunSettle(pr) ==
  IF \A w \in DOMAIN pr.run.workers : pr.run.workers[w].pc = "done"
  THEN [st |-> [pr.st EXCEPT !.isTestRunInProgress = FALSE],
        run |-> [IdleTestRun EXCEPT !.skippedIds = SkippedIds(pr.run.runIds, pr.run.invoked),
                                    !.repeatedIds = RepeatedIds(pr.run.runIds, pr.run.invoked),
                                    !.uncounted = Uncounted(pr.run, pr.run.runIds)]]
  ELSE pr

(* runManualTests for the IDs of the run, from the in-progress flag to the first *)
(* await of every worker (index.js:2953-3086)                                   *)
StartTestRun(st, runIds) ==
  LET workerCount == WorkerCount(getFleetParallelism(st), Len(runIds))
      run0 == [active |-> TRUE, runIds |-> runIds,
               parallelism |-> getFleetParallelism(st),
               workerCount |-> workerCount, queue |-> runIds,
               workers |-> [w \in 1..workerCount |-> [pc |-> "start", robot |-> 0]],
               successCount |-> 0, failureCount |-> 0,
               invoked |-> [r \in Robots |-> 0], skippedIds |-> {}, repeatedIds |-> {},
               uncounted |-> 0]
  IN LaunchTestWorkers([st |-> [st EXCEPT !.isTestRunInProgress = TRUE], run |-> run0], 1)

(* runManualTests from the call to the first await of every worker *)
RunManualTests(runIds) ==
  /\ ~state.isTestRunInProgress
  /\ ~state.isAutoFixInProgress
  /\ runIds # <<>>
  /\ LET pr == StartTestRun(state, runIds)
     IN /\ state' = pr.st
        /\ testRun' = pr.run
  /\ UNCHANGED <<fixRun, onlineRun>>

(* processOneRobot returned for a robot that was not found and worker w goes on *)
(* with its loop (index.js:3081-3085)                                           *)
TestRobotNotFoundDone(w) ==
  /\ testRun.active
  /\ w \in DOMAIN testRun.workers
  /\ testRun.workers[w].pc = "notfound"
  /\ LET done == TestRunSettle(TestWorkerLoop([st |-> state, run |-> testRun], w))
     IN /\ state' = done.st
        /\ testRun' = done.run
  /\ UNCHANGED <<fixRun, onlineRun>>

(* updateRobotTestState (index.js:2675-2767) for a result list that holds one    *)
(* battery result and no online result. recent: the stored online result counts  *)
(* as a recent explicit one; connectivity: the failure carries an ssh/connect/   *)
(* auth signature.                                                               *)
updateRobotTestState(st, id, battery, recent, connectivity) ==
  LET updates == [st.robots[id].tests EXCEPT !["battery"] = normalizeStatus(battery)]
      anyNonError == normalizeStatus(battery) # "error"
      allSshFailures == normalizeStatus(battery) = "error" /\ connectivity
      inferred == IF recent THEN updates
                  ELSE IF anyNonError THEN [updates EXCEPT !["online"] = "ok"]
                  ELSE IF allSshFailures THEN [updates EXCEPT !["online"] = "error"]
                  ELSE updates
  IN [st EXCEPT !.robots[id].tests = inferred]

(* runOneRobotOnlineCheck resolved for worker w (index.js:2989-3024) *)
TestOnlineCheckDone(w, status) ==
  /\ testRun.active
  /\ w \in DOMAIN testRun.workers
  /\ testRun.workers[w].pc = "precheck"
  /\ LET id == testRun.workers[w].robot
         st1 == SetOnline(setRobotSearching(state, id, FALSE), id, status)
         pr == IF normalizeStatus(status) # "ok"
               THEN TestWorkerLoop(
                      [st |-> setRobotTesting(st1, id, FALSE),
                       run |-> [testRun EXCEPT !.failureCount = @ + 1]], w)
               ELSE StartTestRequest([st |-> st1, run |-> testRun], w)
         done == TestRunSettle(pr)
     IN /\ state' = done.st
        /\ testRun' = done.run
  /\ UNCHANGED <<fixRun, onlineRun>>

(* The outcomes of a test request: a result list, an empty list, or a failure. *)
(* connectivity only matters for an error result that is not shadowed by a     *)
(* recent online result, so it is FALSE elsewhere.                             *)
TestOutcomes ==
  {o \in [kind : {"results"}, battery : Statuses, recent : BOOLEAN, connectivity : BOOLEAN] :
     o.connectivity => (o.battery = "error" /\ ~o.recent)}
  \cup [kind : {"empty", "throw"}, battery : {"ok"}, recent : {TRUE}, connectivity : {FALSE}]

(* runRobotTestsForRobot settled for worker w (index.js:3042-3077) *)
TestRequestDone(w, outcome) ==
  /\ testRun.active
  /\ w \in DOMAIN testRun.workers
  /\ testRun.workers[w].pc = "testing"
  /\ LET id == testRun.workers[w].robot
         st1 == IF outcome.kind = "results"
                THEN updateRobotTestState(state, id, outcome.battery, outcome.recent,
                                          outcome.connectivity)
                ELSE state
         run1 == IF outcome.kind = "results"
                 THEN [testRun EXCEPT !.successCount = @ + 1]
                 ELSE [testRun EXCEPT !.failureCount = @ + 1]
         pr == TestWorkerLoop([st |-> setRobotTesting(st1, id, FALSE), run |-> run1], w)
         done == TestRunSettle(pr)
     IN /\ state' = done.st
        /\ testRun' = done.run
  /\ UNCHANGED <<fixRun, onlineRun>>

----------------------------------------------------------------------------
(* runAutoFixCandidate and runAutoFixForRobot *)

(* A fix candidate: how many commands it runs, whether it retests, whether it is *)
(* the flash fix (which always retests: index.js:2126).                          *)
Candidates ==
  {c \in [commands : 0..MaxCommands, tests : BOOLEAN, flash : BOOLEAN] : c.flash => c.tests}

IdleCandidate == [commands |-> 0, tests |-> FALSE, flash |-> FALSE]
IdleFixRun ==
  [active |-> FALSE, robotIds |-> <<>>, candidate |-> IdleCandidate, parallelism |-> 0,
   workerCount |-> 0, queue |-> <<>>, workers |-> IdleWorkers, successCount |-> 0,
   failureCount |-> 0, invoked |-> [r \in Robots |-> 0], skippedIds |-> {},
   repeatedIds |-> {}, uncounted |-> 0]

RECURSIVE FixWorkerLoop(_, _)

(* The retest phase of runAutoFixForRobot up to its await (index.js:2186-2194) *)
BeginFixRetest(pr, w) ==
  LET id == pr.run.workers[w].robot
  IN IF pr.run.candidate.tests
     THEN [st |-> setRobotTesting(pr.st, id, TRUE),
           run |-> [pr.run EXCEPT !.workers[w].pc = "testing"]]
     ELSE FixWorkerLoop([pr EXCEPT !.run.successCount = @ + 1], w)

(* An end of the command phase that leaves the robot marked as fixing *)
EndFixCommandsKeepingFixing(pr, w) == BeginFixRetest(pr, w)

(* The end of the command phase: the finally block at index.js:2180-2184 *)
EndFixCommands(pr, w) ==
  LET id == pr.run.workers[w].robot
      shouldMarkFixing == pr.run.candidate.commands > 0
  IN BeginFixRetest(
       [pr EXCEPT !.st = IF shouldMarkFixing THEN setRobotFixing(@, id, FALSE) ELSE @], w)

(* runAutoFixForRobot up to its first await (index.js:2120-2142) *)
BeginAutoFixForRobot(pr, w) ==
  LET id == pr.run.workers[w].robot
      shouldMarkFixing == pr.run.candidate.commands > 0
      st1 == IF shouldMarkFixing THEN setRobotFixing(pr.st, id, TRUE) ELSE pr.st
  IN IF pr.run.candidate.commands > 0
     THEN [st |-> st1, run |-> [pr.run EXCEPT !.workers[w].pc = "command",
                                              !.workers[w].step = 1]]
     ELSE IF pr.run.candidate.flash
     THEN [st |-> st1, run |-> [pr.run EXCEPT !.workers[w].pc = "settle"]]
     ELSE EndFixCommands([pr EXCEPT !.st = st1], w)

(* One turn of a worker's while loop (index.js:2227-2243) *)
FixWorkerLoop(pr, w) ==
  IF pr.run.queue = <<>>
  THEN [pr EXCEPT !.run.workers[w] = [pc |-> "done", robot |-> 0, step |-> 0]]
  ELSE LET targetId == Head(pr.run.queue)
           taken == [pr EXCEPT !.run.queue = QueueShift(@),
                               !.run.workers[w] = [pc |-> "start", robot |-> targetId,
                                                   step |-> 0],
                               !.run.invoked[targetId] = @ + 1]
       IN IF ~pr.st.robots[targetId].present
          THEN FixWorkerLoop([taken EXCEPT !.run.failureCount = @ + 1], w)
          ELSE BeginAutoFixForRobot(taken, w)

RECURSIVE LaunchFixWorkers(_, _)
LaunchFixWorkers(pr, w) ==
  IF w > pr.run.workerCount THEN pr
  ELSE LaunchFixWorkers(FixWorkerLoop(pr, w), w + 1)

(* await Promise.all(workers) and the finally block (index.js:2245-2265) *)
FixRunSettle(pr) ==
  IF \A w \in DOMAIN pr.run.workers : pr.run.workers[w].pc = "done"
  THEN [st |-> [pr.st EXCEPT !.isAutoFixInProgress = FALSE],
        run |-> [IdleFixRun EXCEPT !.skippedIds = SkippedIds(pr.run.robotIds, pr.run.invoked),
                                   !.repeatedIds = RepeatedIds(pr.run.robotIds, pr.run.invoked),
                                   !.uncounted = Uncounted(pr.run, pr.run.robotIds)]]
  ELSE pr

(* runAutoFixCandidate from the call to the first await of every worker *)
RunAutoFixCandidate(robotIds, candidate) ==
  /\ ~state.isAutoFixInProgress
  /\ ~state.isTestRunInProgress
  /\ ~state.isOnlineRefreshInFlight
  /\ robotIds # <<>>
  /\ LET workerCount == WorkerCount(getFleetParallelism(state), Len(robotIds))
         run0 == [active |-> TRUE, robotIds |-> robotIds, candidate |-> candidate,
                  parallelism |-> getFleetParallelism(state),
                  workerCount |-> workerCount, queue |-> robotIds,
                  workers |-> [w \in 1..workerCount |->
                                 [pc |-> "start", robot |-> 0, step |-> 0]],
                  successCount |-> 0, failureCount |-> 0,
                  invoked |-> [r \in Robots |-> 0], skippedIds |-> {}, repeatedIds |-> {},
                  uncounted |-> 0]
         pr == FixRunSettle(LaunchFixWorkers(
                 [st |-> [state EXCEPT !.isAutoFixInProgress = TRUE], run |-> run0], 1))
     IN /\ state' = pr.st
        /\ fixRun' = pr.run
  /\ UNCHANGED <<testRun, onlineRun>>

(* The POST .../terminal request of one fix command settled (index.js:2142-2171) *)
FixCommandDone(w, ok) ==
  /\ fixRun.active
  /\ w \in DOMAIN fixRun.workers
  /\ fixRun.workers[w].pc = "command"
  /\ LET id == fixRun.workers[w].robot
         pr0 == [st |-> state, run |-> fixRun]
         pr == IF ~ok
               THEN FixWorkerLoop(
                      [st |-> setRobotFixing(state, id, FALSE),
                       run |-> [fixRun EXCEPT !.failureCount = @ + 1]], w)
               ELSE IF fixRun.workers[w].step < fixRun.candidate.commands
               THEN [pr0 EXCEPT !.run.workers[w].step = @ + 1]
               ELSE IF fixRun.candidate.flash
               THEN [pr0 EXCEPT !.run.workers[w].pc = "settle"]
               ELSE EndFixCommands(pr0, w)
         done == FixRunSettle(pr)
     IN /\ state' = done.st
        /\ fixRun' = done.run
  /\ UNCHANGED <<testRun, onlineRun>>

(* The post-flash delay elapsed (index.js:2173-2179) *)
FixSettleDelayDone(w) ==
  /\ fixRun.active
  /\ w \in DOMAIN fixRun.workers
  /\ fixRun.workers[w].pc = "settle"
  /\ LET done == FixRunSettle(EndFixCommands([st |-> state, run |-> fixRun], w))
     IN /\ state' = done.st
        /\ fixRun' = done.run
  /\ UNCHANGED <<testRun, onlineRun>>

(* The retest request settled (index.js:2191-2201). An empty result list leaves *)
(* the robot as it is and still counts as a success.                            *)
FixRetestDone(w, outcome) ==
  /\ fixRun.active
  /\ w \in DOMAIN fixRun.workers
  /\ fixRun.workers[w].pc = "testing"
  /\ LET id == fixRun.workers[w].robot
         st1 == IF outcome.kind = "results"
                THEN updateRobotTestState(state, id, outcome.battery, outcome.recent,
                                          outcome.connectivity)
                ELSE state
         run1 == IF outcome.kind = "throw"
                 THEN [fixRun EXCEPT !.failureCount = @ + 1]
                 ELSE [fixRun EXCEPT !.successCount = @ + 1]
         done == FixRunSettle(
                   FixWorkerLoop([st |-> setRobotTesting(st1, id, FALSE), run |-> run1], w))
     IN /\ state' = done.st
        /\ fixRun' = done.run
  /\ UNCHANGED <<testRun, onlineRun>>

----------------------------------------------------------------------------
(* runOnlineCheckForAllRobots *)

IdleOnlineRun == [pc |-> "idle", activeRobotIds |-> {}, captured |-> <<>>]

(* An online refresh that also starts while a fix batch is in progress *)
RunOnlineCheckForAllRobotsDuringFix ==
  /\ ~state.isOnlineRefreshInFlight
  /\ state' = setRobotSearchingBulk(
                 [state EXCEPT !.isOnlineRefreshInFlight = TRUE], Robots, TRUE)
  /\ onlineRun' = [pc |-> "batch", activeRobotIds |-> Robots, captured |-> <<>>]
  /\ UNCHANGED <<testRun, fixRun>>

(* index.js:2371-2397: up to the await of the batch request *)
RunOnlineCheckForAllRobots ==
  /\ ~state.isOnlineRefreshInFlight
  /\ ~state.isAutoFixInProgress
  /\ LET activeRobotIds == Robots
     IN /\ state' = setRobotSearchingBulk(
                      [state EXCEPT !.isOnlineRefreshInFlight = TRUE], activeRobotIds, TRUE)
        /\ onlineRun' = [pc |-> "batch", activeRobotIds |-> activeRobotIds, captured |-> <<>>]
  /\ UNCHANGED <<testRun, fixRun>>

(* The finally block (index.js:2486-2493) *)
OnlineRefreshFinally(st, activeRobotIds) ==
  [setRobotSearchingBulk(st, activeRobotIds, FALSE) EXCEPT !.isOnlineRefreshInFlight = FALSE]

(* The batch request answered 2xx (index.js:2402-2437): every robot's online *)
(* result is replaced by the reported one, or by an error when none is given *)
OnlineBatchDone(byId) ==
  /\ onlineRun.pc = "batch"
  /\ LET st1 == [state EXCEPT !.robots =
                    [r \in Robots |-> [@[r] EXCEPT !.tests["online"] = normalizeStatus(byId[r])]]]
     IN state' = OnlineRefreshFinally(st1, onlineRun.activeRobotIds)
  /\ onlineRun' = IdleOnlineRun
  /\ UNCHANGED <<testRun, fixRun>>

(* The batch request failed (index.js:2438-2480): one request per robot is *)
(* started, each closing over the robot record of this moment              *)
OnlineBatchFailed ==
  /\ onlineRun.pc = "batch"
  /\ onlineRun' = [onlineRun EXCEPT !.pc = "fallback", !.captured = state.robots]
  /\ UNCHANGED <<state, testRun, fixRun>>

(* Promise.all of the per-robot requests resolved (index.js:2480-2493) *)
OnlineFallbackDone(statusById) ==
  /\ onlineRun.pc = "fallback"
  /\ LET st1 == [state EXCEPT !.robots =
                    [r \in Robots |->
                       [onlineRun.captured[r] EXCEPT !.tests["online"] = statusById[r]]]]
     IN state' = OnlineRefreshFinally(st1, onlineRun.activeRobotIds)
  /\ onlineRun' = IdleOnlineRun
  /\ UNCHANGED <<testRun, fixRun>>

----------------------------------------------------------------------------
(* The runtime reconciler *)

(* normalizeRuntimeTestUpdate (index.js:3822-3836): a result whose source is not *)
(* an allowed one gives no update                                                *)
RUNTIME_ALLOWED_SOURCES == {"manual", "live", "auto-monitor", "auto-monitor-topics"}

(* An update taken from a result of any source *)
normalizeRuntimeTestUpdateAnySource(raw) ==
  [given |-> TRUE, status |-> normalizeStatus(raw.status)]

normalizeRuntimeTestUpdate(raw) ==
  IF raw.source \in RUNTIME_ALLOWED_SOURCES
  THEN [given |-> TRUE, status |-> normalizeStatus(raw.status)]
  ELSE [given |-> FALSE, status |-> "warning"]

(* The record mergeRuntimeRobotsIntoState builds for one robot of state.robots *)
MergeOneRobot(st, id, liveRobot) ==
  LET currentRobot == st.robots[id]
      hasLocalPriorityActivity == HasLocalPriorityActivity(st, id)
      runtimeUpdates == [t \in TestIds |->
                           IF hasLocalPriorityActivity THEN [given |-> FALSE, status |-> "warning"]
                           ELSE normalizeRuntimeTestUpdate(liveRobot.tests[t])]
      nextTests == [t \in TestIds |->
                      IF runtimeUpdates[t].given THEN runtimeUpdates[t].status
                      ELSE currentRobot.tests[t]]
      previousActivity == normalizeRobotActivity(currentRobot.activity)
      nextActivity == IF hasLocalPriorityActivity THEN previousActivity
                      ELSE normalizeRobotActivity(liveRobot.activity)
  IN IF ~liveRobot.present THEN currentRobot
     ELSE [present |-> TRUE, tests |-> nextTests, activity |-> nextActivity]

(* The record normalizeRobotData builds for a robot of the snapshot *)
(* (index.js:3841, 531-560)                                         *)
normalizeRobotData(liveRobot) ==
  [present |-> TRUE,
   tests |-> [t \in TestIds |-> normalizeStatus(liveRobot.tests[t].status)],
   activity |-> normalizeRobotActivity(liveRobot.activity)]

(* A merge that keeps the robots of the snapshot only *)
mergeRuntimeRobotsFromSnapshot(st, liveList) ==
  LET merged == [id \in Robots |->
                   IF ~liveList[id].present THEN AbsentRobot
                   ELSE IF st.robots[id].present THEN MergeOneRobot(st, id, liveList[id])
                   ELSE normalizeRobotData(liveList[id])]
  IN [merged |-> merged,
      changedRobotIds |-> {id \in Robots : merged[id] # st.robots[id]}]

(* mergeRuntimeRobotsIntoState (index.js:3838-3927): the robots of state.robots, *)
(* merged or as they are, then the robots only the snapshot knows                *)
mergeRuntimeRobotsIntoState(st, liveList) ==
  LET merged == [id \in Robots |->
                   IF st.robots[id].present THEN MergeOneRobot(st, id, liveList[id])
                   ELSE IF liveList[id].present THEN normalizeRobotData(liveList[id])
                   ELSE st.robots[id]]
  IN [merged |-> merged,
      changedRobotIds |-> {id \in Robots : merged[id] # st.robots[id]}]

(* A synchronisation that also puts the robots the backend reports as testing *)
(* into testingRobotIds                                                       *)
syncAutomatedRobotActivityIntoLocalSets(st) ==
  LET reported == {id \in Robots : /\ ~HasLocalPriorityActivity(st, id)
                                    /\ normalizeRobotActivity(st.robots[id].activity).testing}
  IN [st EXCEPT !.testingRobotIds = @ \cup reported,
                !.testingCountdowns = [id \in Robots |-> IF id \in reported THEN "scanning" ELSE @[id]],
                !.autoTestingRobotIds = reported,
                !.autoActivityRobotIds = reported]

(* syncAutomatedRobotActivityFromState (index.js:1224-1283) *)
syncAutomatedRobotActivityFromState(st) ==
  LET considered == {id \in Robots : ~HasLocalPriorityActivity(st, id)}
      nextAutoSearching == {id \in considered : normalizeRobotActivity(st.robots[id].activity).searching}
      nextAutoTesting == {id \in considered : normalizeRobotActivity(st.robots[id].activity).testing}
      nextAutoActivityIds == nextAutoSearching \cup nextAutoTesting
      marked == [id \in Robots |->
                   IF id \in nextAutoTesting THEN "scanning"
                   ELSE IF id \in nextAutoSearching THEN "finding"
                   ELSE st.testingCountdowns[id]]
      cleared == [id \in Robots |->
                    IF /\ id \in st.autoActivityRobotIds
                       /\ id \notin nextAutoActivityIds
                       /\ ~HasLocalPriorityActivity(st, id)
                    THEN "none" ELSE marked[id]]
  IN [st EXCEPT !.testingCountdowns = cleared,
                !.autoSearchingRobotIds = nextAutoSearching,
                !.autoTestingRobotIds = nextAutoTesting,
                !.autoActivityRobotIds = nextAutoActivityIds]

(* A tick that starts a fetch whether or not one is outstanding *)
RuntimeSyncTickUnguarded ==
  /\ state.runtimeFetches < 2
  /\ state' = [state EXCEPT !.isRuntimeSyncInFlight = TRUE, !.runtimeFetches = @ + 1]
  /\ UNCHANGED <<testRun, fixRun, onlineRun>>

(* A tick of the polling timer (index.js:3948-3953, 3929-3933). A tick that finds *)
(* isRuntimeSyncInFlight set returns at once and is no step. runtimeFetches is    *)
(* the number of GET /api/robots requests of the reconciler that are outstanding. *)
RuntimeSyncTick ==
  /\ ~state.isRuntimeSyncInFlight
  /\ state' = [state EXCEPT !.isRuntimeSyncInFlight = TRUE, !.runtimeFetches = @ + 1]
  /\ UNCHANGED <<testRun, fixRun, onlineRun>>

(* A pass that drops the snapshot while a batch or an online refresh is running *)
RuntimeSyncDoneWhenIdle(liveList) ==
  /\ state.runtimeFetches > 0
  /\ LET busy == \/ state.isTestRunInProgress
                  \/ state.isAutoFixInProgress
                  \/ state.isOnlineRefreshInFlight
         mergedRuntime == mergeRuntimeRobotsIntoState(state, liveList)
     IN state' = [syncAutomatedRobotActivityFromState(
                    [state EXCEPT !.robots = IF busy THEN @ ELSE mergedRuntime.merged])
                  EXCEPT !.isRuntimeSyncInFlight = FALSE, !.runtimeFetches = @ - 1]
  /\ UNCHANGED <<testRun, fixRun, onlineRun>>

(* The snapshot arrived (index.js:3933-3945) *)
RuntimeSyncDone(liveList) ==
  /\ state.runtimeFetches > 0
  /\ LET mergedRuntime == mergeRuntimeRobotsIntoState(state, liveList)
     IN state' = [syncAutomatedRobotActivityFromState(
                    [state EXCEPT !.robots = mergedRuntime.merged])
                  EXCEPT !.isRuntimeSyncInFlight = FALSE, !.runtimeFetches = @ - 1]
  /\ UNCHANGED <<testRun, fixRun, onlineRun>>

(* A failed fetch that leaves isRuntimeSyncInFlight set *)
RuntimeSyncFailedGuardKept ==
  /\ state.runtimeFetches > 0
  /\ state' = [state EXCEPT !.runtimeFetches = @ - 1]
  /\ UNCHANGED <<testRun, fixRun, onlineRun>>

(* The fetch failed: loadRobotRuntimeState throws on a network error, a non-2xx *)
(* status or a payload that is no array (index.js:3814-3820), the catch block   *)
(* does nothing and the finally block releases the guard (index.js:3941-3945)   *)
RuntimeSyncFailed ==
  /\ state.runtimeFetches > 0
  /\ state' = [state EXCEPT !.isRuntimeSyncInFlight = FALSE, !.runtimeFetches = @ - 1]
  /\ UNCHANGED <<testRun, fixRun, onlineRun>>

(* setFleetParallelism (index.js:150-160) *)
SetFleetParallelism(value) ==
  /\ state' = [state EXCEPT !.fleetParallelism = clampFleetParallelism(value)]
  /\ UNCHANGED <<testRun, fixRun, onlineRun>>

----------------------------------------------------------------------------
(* The dashboard as a whole *)

RunIdLists == DistinctSeqs(Robots) \ {<<>>}

(* The state once the first snapshot is loaded (index.js:620-660, 4034-4045) *)
InitialStatesFor(rosters, values) ==
  {syncAutomatedRobotActivityFromState(
     [robots |-> robots,
      testingRobotIds |-> {}, searchingRobotIds |-> {}, fixingRobotIds |-> {},
      autoSearchingRobotIds |-> {}, autoTestingRobotIds |-> {}, autoActivityRobotIds |-> {},
      testingCountdowns |-> [r \in Robots |-> "none"],
      fleetParallelism |-> clampFleetParallelism(value),
      isTestRunInProgress |-> FALSE, isAutoFixInProgress |-> FALSE,
      isOnlineRefreshInFlight |-> FALSE, isRuntimeSyncInFlight |-> FALSE,
      runtimeFetches |-> 0]) :
   robots \in rosters, value \in values}

InitialStates == InitialStatesFor([Robots -> RobotRecords], ParallelismInputs)

IdleSyncRun == [overlap |-> {}, protected |-> {}, applied |-> FALSE, failed |-> FALSE]

FleetInit ==
  /\ state \in InitialStates
  /\ testRun = IdleTestRun
  /\ fixRun = IdleFixRun
  /\ onlineRun = IdleOnlineRun
  /\ syncRun = IdleSyncRun

InActivitySet(st, id) ==
  id \in st.testingRobotIds \cup st.searchingRobotIds \cup st.fixingRobotIds

(* Observation of the reconciler. overlap: the robots that were in an activity   *)
(* set at some moment while the snapshot fetch now in flight was outstanding.    *)
(* applied: the step just taken merged a snapshot; protected: the robots that    *)
(* were in an activity set when it did.                                          *)
ObserveOverlap ==
  IF ~state'.isRuntimeSyncInFlight THEN {}
  ELSE (IF state.isRuntimeSyncInFlight THEN syncRun.overlap ELSE {})
       \cup {id \in Robots : InActivitySet(state', id)}

TermUnused ==
  /\ term = <<>>
  /\ sockets = <<>>
  /\ sessions = <<>>
  /\ callers = <<>>

(* A step of the dashboard: the terminal component is not involved *)
Fleet(A) ==
  /\ A
  /\ syncRun' = [overlap |-> ObserveOverlap, protected |-> {}, applied |-> FALSE,
                 failed |-> FALSE]
  /\ UNCHANGED termVars

(* The step that merges a snapshot *)
FleetMerge(A) ==
  /\ A
  /\ syncRun' = [overlap |-> {}, applied |-> TRUE, failed |-> FALSE,
                 protected |-> {id \in Robots : InActivitySet(state, id)}]
  /\ UNCHANGED termVars

(* The step in which the snapshot fetch fails; protected: the robots that were in *)
(* an activity set when it did                                                    *)
FleetFailed(A) ==
  /\ A
  /\ syncRun' = [overlap |-> ObserveOverlap, applied |-> FALSE, failed |-> TRUE,
                 protected |-> {id \in Robots : InActivitySet(state, id)}]
  /\ UNCHANGED termVars

Init == FleetInit /\ TermUnused

(* The batch scheduler alone: manual test runs, auto-fix runs, the parallelism *)
(* slider                                                                      *)
NextSched ==
  \/ \E runIds \in RunIdLists : Fleet(RunManualTests(runIds))
  \/ \E w \in 1..MaxRobots, status \in Statuses : Fleet(TestOnlineCheckDone(w, status))
  \/ \E w \in 1..MaxRobots, outcome \in TestOutcomes : Fleet(TestRequestDone(w, outcome))
  \/ \E robotIds \in RunIdLists, candidate \in Candidates :
       Fleet(RunAutoFixCandidate(robotIds, candidate))
  \/ \E w \in 1..MaxRobots, ok \in BOOLEAN : Fleet(FixCommandDone(w, ok))
  \/ \E w \in 1..MaxRobots : Fleet(FixSettleDelayDone(w))
  \/ \E w \in 1..MaxRobots, outcome \in TestOutcomes : Fleet(FixRetestDone(w, outcome))
  \/ \E value \in ParallelismInputs : Fleet(SetFleetParallelism(value))

SpecSched == Init /\ [][NextSched]_vars

(* The batches together with the runtime reconciler. The fix candidates are the *)
(* ones without the post-flash delay, which changes no state of the dashboard.  *)
CommandCandidates == {c \in Candidates : ~c.flash}

NextReconcile ==
  \/ \E runIds \in RunIdLists : Fleet(RunManualTests(runIds))
  \/ \E w \in 1..MaxRobots, status \in Statuses : Fleet(TestOnlineCheckDone(w, status))
  \/ \E w \in 1..MaxRobots, outcome \in TestOutcomes : Fleet(TestRequestDone(w, outcome))
  \/ \E robotIds \in RunIdLists, candidate \in CommandCandidates :
       Fleet(RunAutoFixCandidate(robotIds, candidate))
  \/ \E w \in 1..MaxRobots, ok \in BOOLEAN : Fleet(FixCommandDone(w, ok))
  \/ \E w \in 1..MaxRobots, outcome \in TestOutcomes : Fleet(FixRetestDone(w, outcome))
  \/ Fleet(RuntimeSyncTick)
  \/ \E liveList \in LiveLists : FleetMerge(RuntimeSyncDone(liveList))
  \/ FleetFailed(RuntimeSyncFailed)

SpecReconcile == Init /\ [][NextReconcile]_vars

(* The step that merges the given snapshot, which is kept for observation *)
FleetMergeObserved(liveList) ==
  /\ RuntimeSyncDone(liveList)
  /\ syncRun' = [overlap |-> {}, applied |-> TRUE, failed |-> FALSE,
                 protected |-> {id \in Robots : InActivitySet(state, id)},
                 snapshot |-> liveList]
  /\ UNCHANGED termVars

(* Manual test runs of one robot together with the reconciler, for snapshots *)
(* whose results come from an allowed source or from none; the parallelism   *)
(* is the smallest one, which is enough for a list of one ID                 *)
InitMerge == Init /\ state.fleetParallelism = FLEET_PARALLELISM_MIN

NextMerge ==
  \/ \E runIds \in {<<r>> : r \in Robots} : Fleet(RunManualTests(runIds))
  \/ \E w \in 1..MaxRobots, status \in Statuses : Fleet(TestOnlineCheckDone(w, status))
  \/ \E w \in 1..MaxRobots, outcome \in TestOutcomes : Fleet(TestRequestDone(w, outcome))
  \/ Fleet(RuntimeSyncTick)
  \/ \E liveList \in SourcedLiveLists : FleetMergeObserved(liveList)
  \/ FleetFailed(RuntimeSyncFailed)

SpecMerge == InitMerge /\ [][NextMerge]_vars

(* The batches together with the fleet-wide online refresh *)
NextOnline ==
  \/ \E runIds \in RunIdLists : Fleet(RunManualTests(runIds))
  \/ \E w \in 1..MaxRobots, status \in Statuses : Fleet(TestOnlineCheckDone(w, status))
  \/ \E w \in 1..MaxRobots, outcome \in TestOutcomes : Fleet(TestRequestDone(w, outcome))
  \/ \E robotIds \in RunIdLists, candidate \in CommandCandidates :
       Fleet(RunAutoFixCandidate(robotIds, candidate))
  \/ \E w \in 1..MaxRobots, ok \in BOOLEAN : Fleet(FixCommandDone(w, ok))
  \/ \E w \in 1..MaxRobots, outcome \in TestOutcomes : Fleet(FixRetestDone(w, outcome))
  \/ Fleet(RunOnlineCheckForAllRobots)
  \/ \E byId \in [Robots -> Statuses] : Fleet(OnlineBatchDone(byId))
  \/ Fleet(OnlineBatchFailed)
  \/ \E statusById \in [Robots -> Statuses] : Fleet(OnlineFallbackDone(statusById))

SpecOnline == Init /\ [][NextOnline]_vars

(* The batches, the fleet-wide online refresh and the reconciler together, for *)
(* robots and snapshots that differ in the result of the online test only, at  *)
(* the smallest parallelism                                                    *)
InitBusy ==
  /\ Init
  /\ state.fleetParallelism = FLEET_PARALLELISM_MIN
  /\ \A r \in Robots : /\ state.robots[r].tests["battery"] = "ok"
                        /\ state.robots[r].activity = IdleActivity

BusyLiveLists ==
  {liveList \in SourcedLiveLists :
     \A r \in Robots : /\ liveList[r].activity = IdleActivity
                        /\ liveList[r].tests["battery"].status = "ok"
                        /\ liveList[r].tests["online"].source = "live"}
BusyCandidates == {c \in Candidates : c.commands = 1 /\ c.tests /\ ~c.flash}
BusyOutcomes == {o \in TestOutcomes : o.recent /\ o.battery = "ok"}

NextBusy ==
  \/ \E runIds \in RunIdLists : Fleet(RunManualTests(runIds))
  \/ \E w \in 1..MaxRobots, status \in Statuses : Fleet(TestOnlineCheckDone(w, status))
  \/ \E w \in 1..MaxRobots, outcome \in BusyOutcomes : Fleet(TestRequestDone(w, outcome))
  \/ \E robotIds \in RunIdLists, candidate \in BusyCandidates :
       Fleet(RunAutoFixCandidate(robotIds, candidate))
  \/ \E w \in 1..MaxRobots, ok \in BOOLEAN : Fleet(FixCommandDone(w, ok))
  \/ \E w \in 1..MaxRobots, outcome \in BusyOutcomes : Fleet(FixRetestDone(w, outcome))
  \/ Fleet(RuntimeSyncTick)
  \/ \E liveList \in BusyLiveLists : FleetMergeObserved(liveList)
  \/ FleetFailed(RuntimeSyncFailed)
  \/ Fleet(RunOnlineCheckForAllRobots)
  \/ \E byId \in [Robots -> Statuses] : Fleet(OnlineBatchDone(byId))
  \/ Fleet(OnlineBatchFailed)
  \/ \E statusById \in [Robots -> Statuses] : Fleet(OnlineFallbackDone(statusById))

SpecBusy == InitBusy /\ [][NextBusy]_vars

(* The batch scheduler over rosters in which robots may be missing, so that a   *)
(* batch can hold the ID of a robot that is not in state.robots. Kept for       *)
(* observation: whether the step resolved a batch, of which kind, and how many  *)
(* IDs that batch had queued.                                                   *)
InitCount ==
  /\ state \in InitialStatesFor([Robots -> RobotRecords \cup {AbsentRobot}], ParallelismInputs)
  /\ testRun = IdleTestRun
  /\ fixRun = IdleFixRun
  /\ onlineRun = IdleOnlineRun
  /\ syncRun = [overlap |-> {}, protected |-> {}, applied |-> FALSE, failed |-> FALSE,
                resolved |-> "none", queued |-> 0]
  /\ TermUnused

FleetCounted(A) ==
  /\ A
  /\ syncRun' = [overlap |-> {}, protected |-> {}, applied |-> FALSE, failed |-> FALSE,
                 resolved |-> IF testRun.active /\ ~testRun'.active THEN "tests"
                              ELSE IF fixRun.active /\ ~fixRun'.active THEN "fix"
                              ELSE "none",
                 queued |-> IF testRun.active /\ ~testRun'.active THEN Len(testRun.runIds)
                            ELSE IF fixRun.active /\ ~fixRun'.active THEN Len(fixRun.robotIds)
                            ELSE 0]
  /\ UNCHANGED termVars

(* The start of a fix batch, which resolves in the same step when no worker *)
(* has anything to await                                                    *)
FleetFixStarted(robotIds, candidate) ==
  /\ RunAutoFixCandidate(robotIds, candidate)
  /\ syncRun' = [overlap |-> {}, protected |-> {}, applied |-> FALSE, failed |-> FALSE,
                 resolved |-> IF fixRun'.active THEN "none" ELSE "fix",
                 queued |-> IF fixRun'.active THEN 0 ELSE Len(robotIds)]
  /\ UNCHANGED termVars

NextCount ==
  \/ \E runIds \in RunIdLists : FleetCounted(RunManualTests(runIds))
  \/ \E w \in 1..MaxRobots : FleetCounted(TestRobotNotFoundDone(w))
  \/ \E w \in 1..MaxRobots, status \in Statuses : FleetCounted(TestOnlineCheckDone(w, status))
  \/ \E w \in 1..MaxRobots, outcome \in TestOutcomes : FleetCounted(TestRequestDone(w, outcome))
  \/ \E robotIds \in RunIdLists, candidate \in Candidates : FleetFixStarted(robotIds, candidate)
  \/ \E w \in 1..MaxRobots, ok \in BOOLEAN : FleetCounted(FixCommandDone(w, ok))
  \/ \E w \in 1..MaxRobots : FleetCounted(FixSettleDelayDone(w))
  \/ \E w \in 1..MaxRobots, outcome \in TestOutcomes : FleetCounted(FixRetestDone(w, outcome))

SpecCount == InitCount /\ [][NextCount]_vars

----------------------------------------------------------------------------
(* RobotTerminalComponent (battery-pill-component.js:575-1409)                   *)
(*                                                                               *)
(* term holds the fields of the component. sessions holds the POST .../session   *)
(* requests by slot: "none" (no request), "pending" (outstanding), "aborted"     *)
(* (aborted in the running task, its rejection not yet delivered). sockets holds *)
(* the WebSocket objects by slot, with their readyState, whether the handlers    *)
(* _openStream installed are still attached and whether the promise of           *)
(* _openStream is settled. callers holds the suspended async calls in the order  *)
(* in which they began to wait.                                                  *)

MaxSessions == 2
MaxSockets == 2
MaxCallers == 2

SessionIds == 1..MaxSessions
SocketIds == 1..MaxSockets

FreeSocket == [readyState |-> "NONE", attached |-> FALSE, settled |-> FALSE]

(* The constructor (battery-pill-component.js:576-612). sessionReady is an       *)
(* observation: the last POST .../session request that settled was answered 2xx *)
(* and no DELETE .../session request has been sent since. streamError is one    *)
(* too: a message of type error has arrived and neither reconnect nor connect   *)
(* nor dispose has been called since. sent is the set of the kinds of message   *)
(* that the step just taken has sent on the stream.                             *)
(* fallbackPending is the number of POST .../terminal requests of the fallback  *)
(* command (index.js:3247) that are outstanding. Three more observations of the *)
(* step just taken: requested, the kinds of connection it asked for ("session": *)
(* a POST .../session request, "stream": a new WebSocket); fallbackCalls, the   *)
(* number of calls of onFallbackCommand; commandLines, what the fallback        *)
(* command rendered when its request settled; abandoned, the kinds of the calls *)
(* it left waiting for a promise that nothing can settle any more.              *)
NoLines == [settled |-> FALSE, simulated |-> FALSE, levels |-> {}]

NewTerminal ==
  [mode |-> "fallback", connectionState |-> "disconnected", streamSocket |-> 0,
   streamOpenPromise |-> 0, sessionConnectController |-> 0, sessionStatePromise |-> 0,
   sessionInFlight |-> FALSE, disposing |-> FALSE, currentRobot |-> FALSE, terminal |-> FALSE,
   sessionReady |-> FALSE, streamError |-> FALSE, sent |-> {},
   fallbackPending |-> 0, requested |-> {}, fallbackCalls |-> 0, commandLines |-> NoLines,
   abandoned |-> {}]

(* The fields of the component without the observations of the last step *)
Fields(t) ==
  [t EXCEPT !.sent = {}, !.requested = {}, !.fallbackCalls = 0, !.commandLines = NoLines,
            !.abandoned = {}]

(* The component's state in one value; ok is FALSE when a step needs more *)
(* requests, sockets or callers than the bounds allow                     *)
Tm == [term |-> Fields(term), sockets |-> sockets, sessions |-> sessions,
       callers |-> callers, ok |-> TRUE]

_setConnectionStatus(tm, status) == [tm EXCEPT !.term.connectionState = status]

_isStreamOpen(tm) ==
  /\ tm.term.streamSocket # 0
  /\ tm.sockets[tm.term.streamSocket].readyState = "OPEN"

(* _sendStreamInput (1107-1117): its result is _isStreamOpen *)
_sendStreamInput(tm) ==
  IF _isStreamOpen(tm) THEN [tm EXCEPT !.term.sent = @ \cup {"input"}] ELSE tm

(* _sendResize (1119-1131); dimensions: cols and rows are positive numbers *)
_sendResize(tm, dimensions) ==
  IF _isStreamOpen(tm) /\ dimensions THEN [tm EXCEPT !.term.sent = @ \cup {"resize"}] ELSE tm

(* _handleInput (767-778) *)
_handleInput(tm) ==
  IF ~tm.term.terminal THEN tm
  ELSE IF ~_isStreamOpen(tm)
  THEN IF tm.term.mode = "live" THEN _setConnectionStatus(tm, "error") ELSE tm
  ELSE _sendStreamInput(tm)

Await(tm, kind, wait, on) ==
  IF Len(tm.callers) < MaxCallers
  THEN [tm EXCEPT !.callers = Append(@, [kind |-> kind, wait |-> wait, on |-> on])]
  ELSE [tm EXCEPT !.ok = FALSE]

(* What the caller of _connectLiveSession does with its result: connect ignores *)
(* it (614-622), runCommand sends the command (714-724), _reconnectSession sets *)
(* the status (1347-1355)                                                       *)
AfterLiveSession(tm, kind, ready) ==
  IF kind = "runCommand"
  THEN IF ready /\ ~_isStreamOpen(tm) THEN _setConnectionStatus(tm, "error")
       ELSE IF ready THEN _sendStreamInput(tm)
       ELSE tm
  ELSE IF kind = "reconnect"
  THEN _setConnectionStatus(tm, IF ready THEN "connected" ELSE "error")
  ELSE tm

(* _closeStream (1159-1177): a socket whose handlers are removed has no effect  *)
(* on the component any more. The promise of _openStream is resolved by         *)
(* finalize only (1198-1203), which only the removed handlers call: a call that *)
(* waits for it never resumes and is taken from callers.                        *)
_closeStream(tm, suppressStatus) ==
  LET socket == tm.term.streamSocket
      tm1 == [tm EXCEPT !.term.streamSocket = 0, !.term.streamOpenPromise = 0]
      tm2 == [tm1 EXCEPT !.sockets[socket] = FreeSocket,
                         !.callers = SelectSeq(@, LAMBDA c : ~(c.wait = "stream" /\ c.on = socket)),
                         !.term.abandoned =
                            @ \cup {tm.callers[k].kind : k \in {j \in DOMAIN tm.callers :
                                       tm.callers[j].wait = "stream" /\ tm.callers[j].on = socket}}]
  IN IF socket = 0 THEN tm1
     ELSE IF ~suppressStatus /\ tm.term.mode = "live"
     THEN _setConnectionStatus(tm2, "disconnected")
     ELSE tm2

(* _openStream (1179-1252) up to its return *)
_openStream(tm, kind) ==
  LET free == {s \in SocketIds : tm.sockets[s].readyState = "NONE"}
      socket == CHOOSE s \in free : \A t \in free : s <= t
  IN IF _isStreamOpen(tm) THEN AfterLiveSession(tm, kind, TRUE)
     ELSE IF tm.term.streamOpenPromise # 0
     THEN Await(tm, kind, "stream", tm.term.streamOpenPromise)
     ELSE IF free = {} THEN [tm EXCEPT !.ok = FALSE]
     ELSE Await([_setConnectionStatus(tm, "connecting") EXCEPT
                   !.sockets[socket] = [readyState |-> "CONNECTING", attached |-> TRUE,
                                        settled |-> FALSE],
                   !.term.streamSocket = socket,
                   !.term.streamOpenPromise = socket,
                   !.term.requested = @ \cup {"stream"}],
                kind, "stream", socket)

(* _ensureRemoteSession (1275-1322) up to the await of the request, followed by *)
(* _connectLiveSession's use of its result (1256-1260)                          *)
_ensureRemoteSession(tm, kind) ==
  LET free == {i \in SessionIds : tm.sessions[i] = "none"}
      request == CHOOSE i \in free : \A j \in free : i <= j
  IN IF tm.term.connectionState = "connected" THEN _openStream(tm, kind)
     ELSE IF tm.term.sessionInFlight /\ tm.term.sessionStatePromise # 0
     THEN Await(tm, kind, "session", tm.term.sessionStatePromise)
     ELSE IF free = {} THEN [tm EXCEPT !.ok = FALSE]
     ELSE Await([_setConnectionStatus(tm, "connecting") EXCEPT
                   !.term.sessionInFlight = TRUE,
                   !.term.sessionConnectController = request,
                   !.term.sessionStatePromise = request,
                   !.sessions[request] = "pending",
                   !.term.requested = @ \cup {"session"}],
                kind, "session", request)

(* _connectLiveSession (1254-1273); no preset command is marked auto *)
_connectLiveSession(tm, kind) ==
  IF ~tm.term.currentRobot \/ tm.term.mode # "live"
  THEN AfterLiveSession(tm, kind, FALSE)
  ELSE _ensureRemoteSession(tm, kind)

(* The calls waiting for a promise resume, in the order in which they began to *)
(* wait, when it settles with the given result                                 *)
RECURSIVE Resume(_, _, _, _)
Resume(tm, wait, on, result) ==
  LET waiting == {k \in DOMAIN tm.callers : tm.callers[k].wait = wait /\ tm.callers[k].on = on}
      k == CHOOSE x \in waiting : \A y \in waiting : x <= y
      kind == tm.callers[k].kind
      rest == [tm EXCEPT !.callers = SubSeq(@, 1, k - 1) \o SubSeq(@, k + 1, Len(@))]
  IN IF waiting = {} THEN tm
     ELSE Resume(IF wait = "session" /\ result THEN _openStream(rest, kind)
                 ELSE AfterLiveSession(rest, kind, result),
                 wait, on, result)

(* The finally block of the connect task (1313-1317) *)
SessionFinally(tm) ==
  [tm EXCEPT !.term.sessionConnectController = 0,
             !.term.sessionInFlight = FALSE,
             !.term.sessionStatePromise = 0]

(* controller.abort(): the request is cancelled at once, the rejection of its *)
(* fetch is delivered when the running code has returned                       *)
AbortSession(tm) ==
  LET request == tm.term.sessionConnectController
  IN IF request = 0 THEN tm ELSE [tm EXCEPT !.sessions[request] = "aborted"]

(* An aborted request handled like any other failure of the request *)
AbortContinuationAsError(tm) ==
  LET aborted == {i \in SessionIds : tm.sessions[i] = "aborted"}
      request == CHOOSE i \in aborted : TRUE
  IN IF aborted = {} THEN tm
     ELSE Resume([SessionFinally(_setConnectionStatus(tm, "error"))
                    EXCEPT !.sessions[request] = "none", !.term.sessionReady = FALSE],
                 "session", request, FALSE)

(* The catch and finally blocks of the connect task of an aborted request *)
(* (1306-1317), then the calls that waited for it                         *)
AbortContinuation(tm) ==
  LET aborted == {i \in SessionIds : tm.sessions[i] = "aborted"}
      request == CHOOSE i \in aborted : TRUE
  IN IF aborted = {} THEN tm
     ELSE Resume([SessionFinally(_setConnectionStatus(tm, "disconnected"))
                    EXCEPT !.sessions[request] = "none", !.term.sessionReady = FALSE],
                 "session", request, FALSE)

(* dispose (1381-1408) up to its return *)
DisposeBody(tm) ==
  LET tm1 == [AbortSession([tm EXCEPT !.term.disposing = TRUE, !.term.mode = "fallback"])
                EXCEPT !.term.sessionConnectController = 0,
                       !.term.sessionInFlight = FALSE,
                       !.term.sessionStatePromise = 0]
      tm2 == _closeStream(tm1, TRUE)
  IN [_setConnectionStatus(tm2, "disconnected") EXCEPT !.term.terminal = FALSE,
                                                      !.term.sessionReady = FALSE,
                                                      !.term.streamError = FALSE]

(* _initializeTerminal (624-691) where the terminal runtime is available *)
_initializeTerminal(tm) ==
  _setConnectionStatus(
    _setConnectionStatus([tm EXCEPT !.term.terminal = TRUE, !.term.mode = "live"],
                         "connecting"),
    "disconnected")

(* _fallbackState (897-909) *)
_fallbackState(tm) ==
  [_closeStream([tm EXCEPT !.term.mode = "fallback"], TRUE) EXCEPT !.term.terminal = FALSE]

(* _initializeTerminal (624-643, 687-690) where the terminal runtime is missing, *)
(* no endpoint is configured or the terminal view cannot be created              *)
_initializeTerminalFallback(tm) == _fallbackState(tm)

Commit(tm) ==
  /\ tm.ok
  /\ term' = tm.term
  /\ sockets' = tm.sockets
  /\ sessions' = tm.sessions
  /\ callers' = tm.callers
  /\ UNCHANGED fleetVars

(* connect(robot) (614-622) *)
TermConnect ==
  Commit(AbortContinuation(
           _connectLiveSession(
             _initializeTerminal([DisposeBody(Tm) EXCEPT !.term.disposing = FALSE,
                                                         !.term.currentRobot = TRUE]),
             "connect")))

(* connect(robot) where _initializeTerminal ends in fallback mode *)
TermConnectFallback ==
  Commit(AbortContinuation(
           _connectLiveSession(
             _initializeTerminalFallback([DisposeBody(Tm) EXCEPT !.term.disposing = FALSE,
                                                                 !.term.currentRobot = TRUE]),
             "connect")))

(* dispose() *)
TermDispose == Commit(AbortContinuation(DisposeBody(Tm)))

(* runCommand(command) in live mode (693-725) *)
TermRunCommand ==
  /\ term.currentRobot
  /\ term.mode = "live"
  /\ Commit(_connectLiveSession(Tm, "runCommand"))

MaxFallback == 2

(* The level of the line that shows a test of the robot (index.js:3290, 3294) *)
lineLevel(status) ==
  IF status = "error" THEN "err" ELSE IF status = "warning" THEN "warn" ELSE "ok"

(* runCommand(command) in fallback mode with a command that is not empty        *)
(* (693-703): onFallbackCommand is runFallbackCommandSimulation (index.js:4005), *)
(* which echoes the command and awaits POST .../terminal (index.js:3228-3258)    *)
TermRunCommandFallback ==
  /\ term.currentRobot
  /\ term.mode = "fallback"
  /\ term.fallbackPending < MaxFallback
  /\ Commit([Tm EXCEPT !.term.fallbackCalls = @ + 1,
                       !.term.fallbackPending = @ + 1,
                       !.term.commandLines = [settled |-> FALSE, simulated |-> FALSE,
                                              levels |-> {"warn"}]])

(* How the request of a fallback command settles: answered 2xx with a payload   *)
(* that has a stderr text or not, answered non-2xx, or failed. general, battery: *)
(* the status of the robot's two tests that the simulation prints                *)
RawStatuses == {"ok", "warning", "error"}
FallbackOutcomes ==
  {o \in [kind : {"ok", "rejected", "throw"}, stderr : BOOLEAN,
          general : RawStatuses, battery : RawStatuses] :
     /\ o.stderr => o.kind = "ok"
     /\ o.kind # "throw" => (o.general = "ok" /\ o.battery = "ok")}

(* runFallbackCommandSimulation from the answer of its request (index.js:3259-3297): *)
(* the lines it renders                                                              *)
runFallbackCommandSimulation(outcome) ==
  IF outcome.kind = "rejected"
  THEN [settled |-> TRUE, simulated |-> FALSE, levels |-> {"err"}]
  ELSE IF outcome.kind = "ok"
  THEN [settled |-> TRUE, simulated |-> FALSE,
        levels |-> {"plain"} \cup (IF outcome.stderr THEN {"err"} ELSE {})]
  ELSE [settled |-> TRUE, simulated |-> TRUE,
        levels |-> {"warn", "ok", lineLevel(outcome.general), lineLevel(outcome.battery)}]

(* The request of a fallback command settled *)
TermFallbackResponse(outcome) ==
  /\ term.fallbackPending > 0
  /\ Commit([Tm EXCEPT !.term.fallbackPending = @ - 1,
                       !.term.commandLines = runFallbackCommandSimulation(outcome)])

(* A click on "Reconnect SSH", which is disabled outside live mode and while the *)
(* state is connecting (952-955): _reconnectSession (1335-1346) up to the await *)
(* of the DELETE request                                                        *)
TermReconnect ==
  /\ term.currentRobot
  /\ term.mode = "live"
  /\ term.connectionState # "connecting"
  /\ Commit(AbortContinuation(
              Await([_setConnectionStatus(_closeStream(AbortSession(Tm), TRUE), "disconnected")
                       EXCEPT !.term.sessionReady = FALSE, !.term.streamError = FALSE],
                    "reconnect", "delete", 0)))

(* The DELETE request of a reconnect settled, either way (1346-1355) *)
TermDeleteDone ==
  \E k \in DOMAIN callers :
    /\ callers[k].wait = "delete"
    /\ Commit(_connectLiveSession(
                [Tm EXCEPT !.callers = SubSeq(@, 1, k - 1) \o SubSeq(@, k + 1, Len(@))],
                "reconnect"))

(* The POST .../session request answered, or failed (1297-1317) *)
TermSessionResponse(request, ok) ==
  /\ sessions[request] = "pending"
  /\ Commit(Resume([SessionFinally(_setConnectionStatus(Tm, IF ok THEN "connecting" ELSE "error"))
                      EXCEPT !.sessions[request] = "none", !.term.sessionReady = ok],
                   "session", request, ok))

(* finalize(ok) of _openStream (1198-1203) *)
Finalize(tm, socket) ==
  [tm EXCEPT !.sockets[socket].settled = TRUE, !.term.streamOpenPromise = 0]

(* A close handler that reports every close as an error *)
OnCloseAlwaysError(tm, socket, clean) ==
  LET settled == tm.sockets[socket].settled
      tm1 == [tm EXCEPT !.term.streamSocket = 0, !.term.streamOpenPromise = 0,
                        !.sockets[socket] = FreeSocket]
      tm2 == IF tm.term.disposing \/ tm.term.mode # "live" THEN tm1
             ELSE _setConnectionStatus(tm1, "error")
  IN IF settled THEN tm2 ELSE Resume(tm2, "stream", socket, FALSE)

(* socket.onclose (1229-1247) of a socket that is closed now; clean: the close *)
(* code is 1000                                                                *)
OnClose(tm, socket, clean) ==
  LET settled == tm.sockets[socket].settled
      tm1 == [tm EXCEPT !.term.streamSocket = 0, !.term.streamOpenPromise = 0,
                        !.sockets[socket] = FreeSocket]
      tm2 == IF tm.term.disposing \/ tm.term.mode # "live" THEN tm1
             ELSE _setConnectionStatus(tm1, IF clean THEN "disconnected" ELSE "error")
  IN IF settled THEN tm2 ELSE Resume(tm2, "stream", socket, FALSE)

(* The socket opened: socket.onopen (1205-1209) *)
TermSocketOpened(socket) ==
  /\ sockets[socket].readyState = "CONNECTING"
  /\ Commit(Resume(Finalize(_sendResize([_setConnectionStatus(Tm, "connected")
                                            EXCEPT !.sockets[socket].readyState = "OPEN"],
                                         term.terminal), socket),
                   "stream", socket, TRUE))

(* The connection failed: socket.onerror (1221-1226), then socket.onclose *)
TermSocketFailed(socket) ==
  /\ sockets[socket].readyState = "CONNECTING"
  /\ Commit(OnClose(Resume(Finalize(_setConnectionStatus(Tm, "error"), socket),
                           "stream", socket, FALSE),
                    socket, FALSE))

(* The peer started the closing handshake: readyState is CLOSING until the *)
(* connection is closed                                                    *)
TermSocketClosing(socket) ==
  /\ sockets[socket].readyState = "OPEN"
  /\ Commit([Tm EXCEPT !.sockets[socket].readyState = "CLOSING"])

(* The connection of an open or closing socket is closed *)
TermSocketClosed(socket, clean) ==
  /\ sockets[socket].readyState \in {"OPEN", "CLOSING"}
  /\ Commit(OnClose(Tm, socket, clean))

(* A message of type error arrived (_handleStreamMessage, 1133-1157) *)
TermStreamError(socket) ==
  /\ sockets[socket].readyState = "OPEN"
  /\ term.terminal
  /\ Commit([_setConnectionStatus(Tm, "error") EXCEPT !.term.streamError = TRUE])

(* The terminal emulator reports typed data: xterm.onData (686) *)
TermHandleInput ==
  /\ term.terminal
  /\ Commit(_handleInput(Tm))

(* The terminal emulator reports a new size: xterm.onResize (685) *)
TermResize ==
  /\ term.terminal
  /\ Commit(_sendResize(Tm, TRUE))

FleetUnused ==
  /\ state = <<>>
  /\ testRun = <<>>
  /\ fixRun = <<>>
  /\ onlineRun = <<>>
  /\ syncRun = <<>>

InitTerm ==
  /\ FleetUnused
  /\ term = NewTerminal
  /\ sockets = [s \in SocketIds |-> FreeSocket]
  /\ sessions = [i \in SessionIds |-> "none"]
  /\ callers = <<>>

NextTerm ==
  \/ TermConnect
  \/ TermDispose
  \/ TermRunCommand
  \/ TermReconnect
  \/ TermDeleteDone
  \/ \E request \in SessionIds, ok \in BOOLEAN : TermSessionResponse(request, ok)
  \/ \E socket \in SocketIds : TermSocketOpened(socket)
  \/ \E socket \in SocketIds : TermSocketFailed(socket)
  \/ \E socket \in SocketIds : TermSocketClosing(socket)
  \/ \E socket \in SocketIds, clean \in BOOLEAN : TermSocketClosed(socket, clean)
  \/ \E socket \in SocketIds : TermStreamError(socket)
  \/ TermHandleInput
  \/ TermResize

SpecTerm == InitTerm /\ [][NextTerm]_vars

(* The component where connect may end in fallback mode: the establishment of *)
(* the live session next to the commands of the fallback mode                 *)
NextFallback ==
  \/ TermConnect
  \/ TermConnectFallback
  \/ TermDispose
  \/ TermRunCommand
  \/ TermRunCommandFallback
  \/ \E outcome \in FallbackOutcomes : TermFallbackResponse(outcome)
  \/ \E request \in SessionIds, ok \in BOOLEAN : TermSessionResponse(request, ok)
  \/ \E socket \in SocketIds : TermSocketOpened(socket)
  \/ \E socket \in SocketIds, clean \in BOOLEAN : TermSocketClosed(socket, clean)

SpecFallback == InitTerm /\ [][NextFallback]_vars

----------------------------------------------------------------------------
(* updateRobotTestState in detail (index.js:2675-2767): the stored result of the  *)
(* online test of one robot, the result batches that arrive for it and the clock. *)
(*                                                                                *)
(* Here state holds the stored online result (online), the clock in seconds (now) *)
(* and the ticks the clock has made, and testRun holds the result batch of the    *)
(* test request (results), whether updateRobotTestState has been called with it   *)
(* since the last other step (called) and whether that call inferred (inferred).  *)

MaxResults == 2
MaxTicks == 2

ONLINE_FRESH_SECONDS == 15
StartTime == 100
TickSeconds == 10

(* String.prototype.toLowerCase and String.prototype.includes on the texts of *)
(* the model                                                                  *)
toLowerCase(text) ==
  IF text = "SSH connect timeout" THEN "ssh connect timeout"
  ELSE IF text = "Unknown" THEN "unknown"
  ELSE text

includes(text, word) ==
  word \in (IF text = "ssh connect timeout" THEN {"ssh", "connect"}
            ELSE IF text = "auth failed" THEN {"auth"}
            ELSE {})

(* A timestamp that is missing (Number(undefined) is NaN) or a number *)
NoCheckedAt == [finite |-> FALSE, t |-> 0]
CheckedAt(t) == [finite |-> TRUE, t |-> t]

(* robot.tests.online. probedAt and explicit are observations: the time at which  *)
(* the result was obtained, and whether it is the result of a reachability check *)
(* (and not the placeholder of a robot never checked, or an inferred result).    *)
AbsentOnline ==
  [present |-> FALSE, status |-> "warning", value |-> "", details |-> "",
   checkedAt |-> NoCheckedAt, probedAt |-> 0, explicit |-> FALSE]

OnlineEntry(status, value, details, checkedAt, probedAt, explicit) ==
  [present |-> TRUE, status |-> status, value |-> value, details |-> details,
   checkedAt |-> checkedAt, probedAt |-> probedAt, explicit |-> explicit]

(* The default of the online test definition for a robot that was never checked *)
PlaceholderOnline ==
  OnlineEntry("warning", "Unknown", "not checked yet", NoCheckedAt, 0, FALSE)

(* The results of a batch: the online test or another one, a status the backend *)
(* may send, a value and a details text                                         *)
ResultStatuses == {"ok", "error", "failed"}
ResultValues == {"n/a", "execution_error", "command_error"}
ResultDetails == {"disk full", "SSH connect timeout", "auth failed"}
Results ==
  {result \in [id : TestIds, status : ResultStatuses, value : ResultValues,
               details : ResultDetails] :
     result.value = "n/a" \/ result.details = "disk full"}
ResultBatches == UNION {[1..n -> Results] : n \in 1..MaxResults}

(* index.js:2711-2714 *)
isPlaceholderOnline(existingOnline) ==
  /\ normalizeStatus(existingOnline.status) = "warning"
  /\ toLowerCase(existingOnline.value) \in {"", "unknown"}
  /\ toLowerCase(existingOnline.details) \in {"", "not checked yet"}

(* index.js:2715-2718 *)
hasRecentExplicitOnline(existingOnline, now) ==
  /\ existingOnline.present
  /\ ~isPlaceholderOnline(existingOnline)
  /\ \/ ~existingOnline.checkedAt.finite
     \/ existingOnline.checkedAt.t <= 0
     \/ now - existingOnline.checkedAt.t <= ONLINE_FRESH_SECONDS

(* index.js:2703-2705 *)
hasExplicitOnlineResult(results) ==
  \E k \in DOMAIN results : results[k].id = "online"

(* index.js:2720-2722 *)
nonOnlineResults(results) == SelectSeq(results, LAMBDA result : result.id # "online")

(* A reachable rule that asks every result to be free of errors *)
anyNonErrorEvery(results) ==
  \A k \in DOMAIN nonOnlineResults(results) :
    normalizeStatus(nonOnlineResults(results)[k].status) # "error"

(* index.js:2723-2725 *)
anyNonError(results) ==
  \E k \in DOMAIN nonOnlineResults(results) :
    normalizeStatus(nonOnlineResults(results)[k].status) # "error"

(* An unreachable rule that only looks at the details text *)
allSshFailuresByDetails(results) ==
  /\ Len(nonOnlineResults(results)) > 0
  /\ \A k \in DOMAIN nonOnlineResults(results) :
       LET result == nonOnlineResults(results)[k]
           details == toLowerCase(result.details)
       IN /\ normalizeStatus(result.status) = "error"
          /\ (includes(details, "ssh") \/ includes(details, "connect")
                \/ includes(details, "auth"))

(* index.js:2726-2739 *)
allSshFailures(results) ==
  /\ Len(nonOnlineResults(results)) > 0
  /\ \A k \in DOMAIN nonOnlineResults(results) :
       LET result == nonOnlineResults(results)[k]
           details == toLowerCase(result.details)
           value == toLowerCase(result.value)
       IN /\ normalizeStatus(result.status) = "error"
          /\ \/ includes(details, "ssh")
             \/ includes(details, "connect")
             \/ includes(details, "auth")
             \/ value = "execution_error"
             \/ value = "command_error"

(* The result of the online test that is in the batch, if there is one: the last *)
(* one wins (index.js:2683-2691)                                                 *)
RECURSIVE explicitOnlineUpdate(_, _, _)
explicitOnlineUpdate(existingOnline, results, now) ==
  IF results = <<>> THEN existingOnline
  ELSE LET result == results[Len(results)]
       IN IF result.id = "online"
          THEN OnlineEntry(normalizeStatus(result.status), result.value, result.details,
                           NoCheckedAt, now, TRUE)
          ELSE explicitOnlineUpdate(existingOnline, SubSeq(results, 1, Len(results) - 1), now)

(* Whether updateRobotTestState takes the inference branch (index.js:2719) *)
infersOnline(existingOnline, results, now) ==
  ~hasExplicitOnlineResult(results) /\ ~hasRecentExplicitOnline(existingOnline, now)

(* updates.online of updateRobotTestState for a batch that is not empty *)
(* (index.js:2681-2754)                                                  *)
updatesOnline(existingOnline, results, now) ==
  LET updates == explicitOnlineUpdate(existingOnline, results, now)
  IN IF ~infersOnline(existingOnline, results, now) THEN updates
     ELSE IF anyNonError(results)
     THEN OnlineEntry("ok", "reachable", "Inferred online", NoCheckedAt, now, FALSE)
     ELSE IF allSshFailures(results)
     THEN OnlineEntry("error", "unreachable", "Inferred offline", NoCheckedAt, now, FALSE)
     ELSE updates

(* A robot as it is loaded: without an online result, with the placeholder, or *)
(* with a result, which normalizeRobotTests stores without its timestamp       *)
(* (index.js:531-537); and the batch of results its test requests return       *)
InitInfer ==
  /\ state \in [online : {AbsentOnline, PlaceholderOnline,
                           OnlineEntry("ok", "reachable", "disk full", NoCheckedAt,
                                       StartTime, TRUE)},
                 now : {StartTime}, ticks : {0}]
  /\ testRun \in [results : ResultBatches, called : {FALSE}, inferred : {FALSE}]
  /\ fixRun = <<>>
  /\ onlineRun = <<>>
  /\ syncRun = <<>>
  /\ TermUnused

InferFrame == UNCHANGED <<fixRun, onlineRun, syncRun, term, sockets, sessions, callers>>

(* updateRobotTestState is called with the batch of results *)
InferUpdate ==
  /\ ~testRun.called
  /\ state' = [state EXCEPT !.online = updatesOnline(state.online, testRun.results, state.now)]
  /\ testRun' = [testRun EXCEPT !.called = TRUE,
                                !.inferred = infersOnline(state.online, testRun.results, state.now)]
  /\ InferFrame

(* Time passes *)
InferTick ==
  /\ state.ticks < MaxTicks
  /\ state' = [state EXCEPT !.now = @ + TickSeconds, !.ticks = @ + 1]
  /\ testRun' = [testRun EXCEPT !.called = FALSE, !.inferred = FALSE]
  /\ InferFrame

(* The online pre-check of runManualTests stores its result, which has no *)
(* timestamp (index.js:2989-3006)                                         *)
InferPreCheck(status) ==
  /\ state' = [state EXCEPT !.online =
                 OnlineEntry(status, IF status = "ok" THEN "reachable" ELSE "unreachable",
                             "disk full", NoCheckedAt, state.now, TRUE)]
  /\ testRun' = [testRun EXCEPT !.called = FALSE, !.inferred = FALSE]
  /\ InferFrame

(* The reconciler stores the online result of a snapshot with the timestamp the *)
(* backend gave it (index.js:3829-3835, 3871-3874)                              *)
InferRuntimeMerge(status, age) ==
  /\ state' = [state EXCEPT !.online =
                 OnlineEntry(status, IF status = "ok" THEN "reachable" ELSE "unreachable",
                             "disk full", CheckedAt(state.now - age), state.now - age, TRUE)]
  /\ testRun' = [testRun EXCEPT !.called = FALSE, !.inferred = FALSE]
  /\ InferFrame

NextInfer ==
  \/ InferUpdate
  \/ InferTick
  \/ \E status \in Statuses : InferPreCheck(status)
  \/ \E status \in Statuses, age \in {0, TickSeconds, 2 * TickSeconds} :
       InferRuntimeMerge(status, age)

SpecInfer == InitInfer /\ [][NextInfer]_vars

----------------------------------------------------------------------------
(* normalizeStatus on the values a backend may send as the status of a test.    *)
(*                                                                              *)
(* Here state holds, per test, the raw status (raw), the stored status (status) *)
(* and how often the status has been normalised (passes).                       *)

MaxPasses == 2

StatusInputs ==
  {JsString(text) : text \in {"ok", "warning", "error", "OK", "Error", "failed", ""}}
    \cup {JsNull, JsUndefined, JsNumber(0), JsTrue}

InitStatus ==
  /\ state \in [raw : [TestIds -> StatusInputs],
                 status : {[id \in TestIds |-> JsUndefined]},
                 passes : {[id \in TestIds |-> 0]}]
  /\ testRun = <<>>
  /\ fixRun = <<>>
  /\ onlineRun = <<>>
  /\ syncRun = <<>>
  /\ TermUnused

(* The status of a test is normalised: the raw one when the robot is loaded   *)
(* (formatTestValue, index.js:531-537), the stored one whenever it is read    *)
(* again (index.js:2707, 2983)                                                *)
NormalizeTest(id) ==
  /\ state.passes[id] < MaxPasses
  /\ state' = [state EXCEPT
                 !.status[id] = normalizeStatusValue(IF state.passes[id] = 0
                                                      THEN state.raw[id] ELSE @),
                 !.passes[id] = @ + 1]
  /\ UNCHANGED <<testRun, fixRun, onlineRun, syncRun, term, sockets, sessions, callers>>

NextStatus == \E id \in TestIds : NormalizeTest(id)

SpecStatus == InitStatus /\ [][NextStatus]_vars

----------------------------------------------------------------------------
(* The parallelism setting with every input of clampFleetParallelism, and the *)
(* test batches that run under it                                             *)

NextClamp ==
  \/ \E value \in ClampInputs : Fleet(SetFleetParallelism(value))
  \/ \E runIds \in RunIdLists : Fleet(RunManualTests(runIds))
  \/ \E w \in 1..MaxRobots, status \in Statuses : Fleet(TestOnlineCheckDone(w, status))
  \/ \E w \in 1..MaxRobots, outcome \in TestOutcomes : Fleet(TestRequestDone(w, outcome))

SpecClamp == Init /\ [][NextClamp]_vars

----------------------------------------------------------------------------
(* syncMonitorParallelismWithFleet (index.js:323-373): the monitor parallelism *)
(* of the backend follows the fleet parallelism of the dashboard.              *)
(*                                                                             *)
(* Here state holds fleetParallelism, monitorParallelism, the debounce timer   *)
(* (monitorParallelismSyncTimer), monitorParallelismSyncInFlight, the target   *)
(* of the PATCH in flight (nextTarget), monitorParallelismPendingValue, and    *)
(* two observations: the outcome of the last PATCH and whether one has failed. *)

NoPending == [present |-> FALSE, value |-> 0]
Pending(value) == [present |-> TRUE, value |-> value]

(* The dashboard once loadMonitorConfig has applied the backend's configuration *)
(* and scheduled the first synchronisation (index.js:255-267)                   *)
InitMonitor ==
  /\ state \in [fleetParallelism : {clampFleetParallelism(value) : value \in ParallelismInputs},
                 monitorParallelism : {clampFleetParallelism(value) : value \in ParallelismInputs},
                 monitorParallelismSyncTimer : {TRUE},
                 monitorParallelismSyncInFlight : {FALSE},
                 nextTarget : {0},
                 monitorParallelismPendingValue : {NoPending},
                 lastPatch : {"none"},
                 patchFailed : {FALSE}]
  /\ testRun = <<>>
  /\ fixRun = <<>>
  /\ onlineRun = <<>>
  /\ syncRun = <<>>
  /\ TermUnused

MonitorFrame ==
  UNCHANGED <<testRun, fixRun, onlineRun, syncRun, term, sockets, sessions, callers>>

(* setFleetParallelism with scheduleMonitorParallelismSync (index.js:150-160, *)
(* 323-331): the slider moved                                                  *)
SetFleetParallelismAndSchedule(value) ==
  /\ state' = [state EXCEPT !.fleetParallelism = clampFleetParallelism(value),
                            !.monitorParallelismSyncTimer = TRUE]
  /\ MonitorFrame

(* syncMonitorParallelismWithFleet up to its first await (index.js:333-350) *)
syncMonitorParallelismWithFleet(st) ==
  LET targetParallelism == getFleetParallelism(st)
  IN IF st.monitorParallelismSyncInFlight
     THEN [st EXCEPT !.monitorParallelismPendingValue = Pending(targetParallelism)]
     ELSE IF st.monitorParallelism = targetParallelism THEN st
     ELSE [st EXCEPT !.monitorParallelismSyncInFlight = TRUE,
                     !.nextTarget = targetParallelism]

(* The debounce timer fires (index.js:327-330) *)
MonitorSyncTimerFired ==
  /\ state.monitorParallelismSyncTimer
  /\ state' = syncMonitorParallelismWithFleet(
                [state EXCEPT !.monitorParallelismSyncTimer = FALSE])
  /\ MonitorFrame

(* The PATCH was rejected or threw: break or catch, then finally *)
(* (index.js:351-353, 367-371)                                   *)
MonitorPatchFailed(st) ==
  [st EXCEPT !.monitorParallelismSyncInFlight = FALSE, !.nextTarget = 0,
             !.lastPatch = "failed", !.patchFailed = TRUE]

(* The PATCH succeeded and the backend answered with the parallelism it was *)
(* sent: applyMonitorConfigFromPayload, then the queued value               *)
(* (index.js:354-366, 250)                                                 *)
MonitorPatchOk(st) ==
  LET applied == [st EXCEPT !.monitorParallelism =
                              clampFleetParallelism(JsNumber(10 * st.nextTarget)),
                            !.monitorParallelismPendingValue = NoPending,
                            !.lastPatch = "ok"]
      pending == st.monitorParallelismPendingValue
      clampedPending == clampFleetParallelism(JsNumber(10 * pending.value))
  IN IF ~pending.present \/ clampedPending = applied.monitorParallelism
     THEN [applied EXCEPT !.monitorParallelismSyncInFlight = FALSE, !.nextTarget = 0]
     ELSE [applied EXCEPT !.nextTarget = clampedPending]

(* The PATCH /api/monitor/config of the loop settled *)
MonitorPatchDone(ok) ==
  /\ state.monitorParallelismSyncInFlight
  /\ state' = IF ok THEN MonitorPatchOk(state) ELSE MonitorPatchFailed(state)
  /\ MonitorFrame

NextMonitor ==
  \/ \E value \in ParallelismInputs : SetFleetParallelismAndSchedule(value)
  \/ MonitorSyncTimerFired
  \/ \E ok \in BOOLEAN : MonitorPatchDone(ok)

SpecMonitor == InitMonitor /\ [][NextMonitor]_vars

----------------------------------------------------------------------------
(* The selection of robots for bulk operations (state.selectedRobotIds), next to *)
(* the batches, the reconciler and the fleet online refresh                      *)

(* The IDs of state.robots that are in the set, in the order of state.robots *)
RobotIdsIn(ids) == SelectSeq([r \in Robots |-> r], LAMBDA r : r \in ids)

(* index.js:780-782 *)
getSelectedRobotIds(st) == RobotIdsIn(st.selectedRobotIds)

(* index.js:784-788 *)
getReachableRobotIds(st) ==
  RobotIdsIn({r \in Robots : normalizeStatus(st.robots[r].tests["online"]) = "ok"})

(* index.js:1297-1316, for a list that is not empty *)
selectRobotIds(st, list) == [st EXCEPT !.selectedRobotIds = SeqToSet(list)]

(* A getRobotIdsForRun that also selects the robot of the detail page *)
getRobotIdsForRunSelectingActive(st, options) ==
  IF getSelectedRobotIds(st) # <<>> THEN [runIds |-> getSelectedRobotIds(st), st |-> st]
  ELSE IF options.autoSelectOnlineWhenEmpty
  THEN (IF getReachableRobotIds(st) # <<>>
        THEN [runIds |-> getReachableRobotIds(st),
              st |-> selectRobotIds(st, getReachableRobotIds(st))]
        ELSE [runIds |-> <<>>, st |-> st])
  ELSE IF options.detailRobotId # 0
  THEN [runIds |-> <<options.detailRobotId>>,
        st |-> selectRobotIds(st, <<options.detailRobotId>>)]
  ELSE [runIds |-> <<>>, st |-> st]

(* index.js:2588-2607: the IDs of the run and the state it leaves *)
getRobotIdsForRun(st, options) ==
  IF getSelectedRobotIds(st) # <<>> THEN [runIds |-> getSelectedRobotIds(st), st |-> st]
  ELSE IF options.autoSelectOnlineWhenEmpty
  THEN (IF getReachableRobotIds(st) # <<>>
        THEN [runIds |-> getReachableRobotIds(st),
              st |-> selectRobotIds(st, getReachableRobotIds(st))]
        ELSE [runIds |-> <<>>, st |-> st])
  ELSE IF options.detailRobotId # 0 THEN [runIds |-> <<options.detailRobotId>>, st |-> st]
  ELSE [runIds |-> <<>>, st |-> st]

(* The two buttons that run tests: on the detail page with fallbackToActive *)
(* (index.js:4156), on the dashboard with autoSelectOnlineWhenEmpty (4160)  *)
RunOptions ==
  [autoSelectOnlineWhenEmpty : {FALSE}, detailRobotId : 0..MaxRobots]
    \cup [autoSelectOnlineWhenEmpty : {TRUE}, detailRobotId : {0}]

(* runManualTests(options) (index.js:2932-3086) *)
RunManualTestsForRun(options) ==
  /\ ~state.isTestRunInProgress
  /\ ~state.isAutoFixInProgress
  /\ LET run == getRobotIdsForRun(state, options)
         pr == StartTestRun(run.st, run.runIds)
     IN IF run.runIds = <<>>
        THEN UNCHANGED <<state, testRun>>
        ELSE state' = pr.st /\ testRun' = pr.run
  /\ UNCHANGED <<fixRun, onlineRun>>

(* index.js:1285-1295 *)
SetRobotSelection(id, selected) ==
  /\ state' = [state EXCEPT !.selectedRobotIds =
                 IF selected THEN @ \cup {id} ELSE @ \ {id}]
  /\ UNCHANGED <<testRun, fixRun, onlineRun>>

(* index.js:1943-1950 *)
SelectAllRobots ==
  /\ state' = [state EXCEPT !.selectedRobotIds = IF @ = Robots THEN {} ELSE Robots]
  /\ UNCHANGED <<testRun, fixRun, onlineRun>>

(* The section toggle of the online robots (index.js:1998-2005) *)
SelectAllOnlineRobots ==
  /\ LET ids == SeqToSet(getReachableRobotIds(state))
     IN state' = [state EXCEPT !.selectedRobotIds =
                    IF ids \subseteq @ THEN @ \ ids ELSE @ \cup ids]
  /\ UNCHANGED <<testRun, fixRun, onlineRun>>

(* The dashboard with an empty selection (index.js:619), every robot idle with *)
(* a battery test that passed, under the smallest parallelism                  *)
InitSelect ==
  /\ \E st \in InitialStates :
       /\ st.fleetParallelism = FLEET_PARALLELISM_MIN
       /\ \A r \in Robots : st.robots[r].tests["battery"] = "ok"
                               /\ st.robots[r].activity = IdleActivity
       /\ state = [f \in DOMAIN st \cup {"selectedRobotIds"} |->
                     IF f = "selectedRobotIds" THEN {} ELSE st[f]]
  /\ testRun = IdleTestRun
  /\ fixRun = IdleFixRun
  /\ onlineRun = IdleOnlineRun
  /\ syncRun = IdleSyncRun
  /\ TermUnused

(* The snapshots, fix candidates and test outcomes of this specification *)
SelectLiveLists ==
  {liveList \in LiveLists :
     \A r \in Robots : /\ liveList[r].activity = IdleActivity
                        /\ liveList[r].tests["battery"].status = "ok"
                        /\ liveList[r].tests["online"].status = liveList[1].tests["online"].status}
SelectCandidates == {c \in Candidates : c.commands = 1 /\ c.tests /\ ~c.flash}
SelectOutcomes == {o \in TestOutcomes : o.recent /\ o.battery = "ok"}

NextSelect ==
  \/ \E id \in Robots, selected \in BOOLEAN : Fleet(SetRobotSelection(id, selected))
  \/ Fleet(SelectAllRobots)
  \/ Fleet(SelectAllOnlineRobots)
  \/ \E options \in RunOptions : Fleet(RunManualTestsForRun(options))
  \/ \E w \in 1..MaxRobots, status \in Statuses : Fleet(TestOnlineCheckDone(w, status))
  \/ \E w \in 1..MaxRobots, outcome \in SelectOutcomes : Fleet(TestRequestDone(w, outcome))
  \/ \E robotIds \in RunIdLists, candidate \in SelectCandidates :
       Fleet(RunAutoFixCandidate(robotIds, candidate))
  \/ \E w \in 1..MaxRobots, ok \in BOOLEAN : Fleet(FixCommandDone(w, ok))
  \/ \E w \in 1..MaxRobots, outcome \in SelectOutcomes : Fleet(FixRetestDone(w, outcome))
  \/ Fleet(RuntimeSyncTick)
  \/ \E liveList \in SelectLiveLists : FleetMerge(RuntimeSyncDone(liveList))
  \/ FleetFailed(RuntimeSyncFailed)
  \/ Fleet(RunOnlineCheckForAllRobots)
  \/ \E byId \in [Robots -> Statuses] : Fleet(OnlineBatchDone(byId))
  \/ Fleet(OnlineBatchFailed)
  \/ \E statusById \in [Robots -> Statuses] : Fleet(OnlineFallbackDone(statusById))

SpecSelect == InitSelect /\ [][NextSelect]_vars

----------------------------------------------------------------------------
(* The reconciler with robots that state.robots or the snapshot does not hold, *)
(* next to test runs of one robot                                              *)

AbsentLive ==
  [present |-> FALSE, tests |-> [t \in TestIds |-> [status |-> "ok", source |-> "live"]],
   activity |-> IdleActivity]

RosterLiveLists == [Robots -> LiveRobots \cup {AbsentLive}]

InitRoster ==
  /\ state \in InitialStatesFor([Robots -> RobotRecords \cup {AbsentRobot}],
                                 {JsNumber(10 * FLEET_PARALLELISM_MIN)})
  /\ testRun = IdleTestRun
  /\ fixRun = IdleFixRun
  /\ onlineRun = IdleOnlineRun
  /\ syncRun = IdleSyncRun
  /\ TermUnused

(* The step that merges the given snapshot; kept for observation: the snapshot, *)
(* the changed IDs mergeRuntimeRobotsIntoState returns, and the IDs that got a  *)
(* record                                                                       *)
RosterMergeObserved(liveList) ==
  /\ RuntimeSyncDone(liveList)
  /\ syncRun' = [overlap |-> {}, applied |-> TRUE, failed |-> FALSE,
                 protected |-> {id \in Robots : InActivitySet(state, id)},
                 snapshot |-> liveList,
                 changedRobotIds |-> mergeRuntimeRobotsIntoState(state, liveList).changedRobotIds,
                 added |-> {id \in Robots : ~state.robots[id].present
                                             /\ state'.robots[id].present}]
  /\ UNCHANGED termVars

NextRoster ==
  \/ \E r \in Robots : state.robots[r].present /\ Fleet(RunManualTests(<<r>>))
  \/ \E w \in 1..MaxRobots, status \in Statuses : Fleet(TestOnlineCheckDone(w, status))
  \/ \E w \in 1..MaxRobots, outcome \in TestOutcomes : Fleet(TestRequestDone(w, outcome))
  \/ Fleet(RuntimeSyncTick)
  \/ \E liveList \in RosterLiveLists : RosterMergeObserved(liveList)
  \/ FleetFailed(RuntimeSyncFailed)

SpecRoster == InitRoster /\ [][NextRoster]_vars

----------------------------------------------------------------------------
(* Properties of the batch scheduler *)

(* The robots whose operation a worker of the run holds at one of the given *)
(* points                                                                   *)
HeldBy(run, pcs) ==
  {run.workers[w].robot : w \in {v \in DOMAIN run.workers : run.workers[v].pc \in pcs}}

(* The per-robot operations of the run that have started and not finished *)
InFlight(run) ==
  Cardinality({w \in DOMAIN run.workers : run.workers[w].pc \notin {"start", "done"}})

(* C1: in a batch of runManualTests or runAutoFixCandidate over distinct IDs the *)
(* per-robot operation is invoked exactly once for each queued ID by the time    *)
(* the batch resolves: at no moment has an ID been taken twice, and a batch that *)
(* resolved skipped no ID and repeated none.                                     *)
C1_ExactlyOncePerId ==
  /\ \A r \in Robots : testRun.invoked[r] <= 1 /\ fixRun.invoked[r] <= 1
  /\ testRun.skippedIds = {} /\ testRun.repeatedIds = {}
  /\ fixRun.skippedIds = {} /\ fixRun.repeatedIds = {}

(* A test batch over every robot with one worker whose last ID has been taken *)
C1_Witness ==
  /\ testRun.active
  /\ testRun.workerCount = 1
  /\ Len(testRun.runIds) = MaxRobots
  /\ testRun.queue = <<>>
  /\ \A r \in Robots : testRun.invoked[r] = 1

(* C2: at every moment of a batch the number of per-robot operations started and *)
(* not yet finished is at most min(P, |IDs|), P the clamped fleet parallelism    *)
(* read when the batch started.                                                  *)
C2_InFlightBounded ==
  /\ testRun.active =>
       /\ testRun.parallelism \in FLEET_PARALLELISM_MIN..FLEET_PARALLELISM_MAX
       /\ InFlight(testRun) <= Min(testRun.parallelism, Len(testRun.runIds))
  /\ fixRun.active =>
       /\ fixRun.parallelism \in FLEET_PARALLELISM_MIN..FLEET_PARALLELISM_MAX
       /\ InFlight(fixRun) <= Min(fixRun.parallelism, Len(fixRun.robotIds))

(* A batch of more IDs than P with P operations in flight and an ID waiting *)
C2_Witness ==
  /\ fixRun.active
  /\ Len(fixRun.robotIds) > fixRun.parallelism
  /\ InFlight(fixRun) = fixRun.parallelism
  /\ fixRun.queue # <<>>

(* C3: no robot ID is in more than one of testingRobotIds, searchingRobotIds and *)
(* fixingRobotIds at the same time.                                              *)
C3_OneActivitySetPerRobot ==
  \A r \in Robots :
    /\ ~(r \in state.testingRobotIds /\ r \in state.searchingRobotIds)
    /\ ~(r \in state.testingRobotIds /\ r \in state.fixingRobotIds)
    /\ ~(r \in state.searchingRobotIds /\ r \in state.fixingRobotIds)

----------------------------------------------------------------------------
(* Properties of the runtime reconciler *)

(* C4: when mergeRuntimeRobotsIntoState applies a snapshot, every robot that is *)
(* in testingRobotIds, searchingRobotIds or fixingRobotIds at that moment keeps *)
(* its tests map and its activity record.                                       *)
C4_MergeKeepsLocallyActive ==
  [][syncRun'.applied =>
       \A id \in Robots : InActivitySet(state, id) => state'.robots[id] = state.robots[id]]_vars

(* A snapshot has just been merged while one robot was in an activity set and *)
(* another was not                                                            *)
C4_Witness ==
  /\ syncRun.applied
  /\ syncRun.protected # {}
  /\ syncRun.protected # Robots

(* C5: a pass whose snapshot fetch was outstanding at any time while a robot was *)
(* in an activity set leaves that robot's tests and activity unchanged, also     *)
(* when the robot has left every activity set before the response is merged.     *)
C5_OverlappingPassKeepsRobot ==
  [][syncRun'.applied =>
       \A id \in syncRun.overlap : state'.robots[id] = state.robots[id]]_vars

(* C6, as stated: every robot waiting in the queue of a batch is in an activity *)
(* set.                                                                         *)
C6_QueuedRobotsMarked ==
  \A r \in SeqToSet(testRun.queue) \cup SeqToSet(fixRun.queue) : InActivitySet(state, r)

(* C6, amended: a robot is put into an activity set when a worker takes it from *)
(* the queue. While its test request is in flight it is in testingRobotIds,     *)
(* while its fix command is in flight it is in fixingRobotIds, and a merge of a *)
(* snapshot at such a moment leaves its tests and activity unchanged.           *)
C6_MarkedWhileInFlight ==
  [][/\ HeldBy(testRun', {"testing"}) \cup HeldBy(fixRun', {"testing"})
          \subseteq state'.testingRobotIds
     /\ HeldBy(fixRun', {"command"}) \subseteq state'.fixingRobotIds
     /\ syncRun'.applied =>
          \A id \in HeldBy(testRun, {"testing"}) \cup HeldBy(fixRun, {"testing", "command"}) :
            state'.robots[id] = state.robots[id]]_vars

(* A snapshot has just been merged while one robot of a test batch had its test *)
(* request in flight and was protected, and the next robot waited in the queue  *)
(* unprotected                                                                  *)
C6_Witness ==
  /\ syncRun.applied
  /\ testRun.active
  /\ testRun.queue # <<>>
  /\ HeldBy(testRun, {"testing"}) # {}
  /\ HeldBy(testRun, {"testing"}) \subseteq syncRun.protected
  /\ SeqToSet(testRun.queue) \cap syncRun.protected = {}

----------------------------------------------------------------------------
(* Properties of the terminal component *)

PendingSessions == {i \in SessionIds : sessions[i] = "pending"}

(* C7: at most one session-establishment request (POST .../session) is *)
(* outstanding at any time.                                            *)
C7_SingleFlightSession == Cardinality(PendingSessions) <= 1

(* C8: every stream socket that is open or opening is the one the component's *)
(* stream handle refers to, so there is at most one.                          *)
C8_OneReferencedStream ==
  \A s \in SocketIds :
    sockets[s].readyState \in {"CONNECTING", "OPEN"} => term.streamSocket = s

(* C9: dispose() leaves no establishment request outstanding, no stream socket *)
(* open or opening, no stream handle, no establishment marked in flight and    *)
(* connectionState = disconnected.                                             *)
C9_DisposeReleasesEverything ==
  [][TermDispose =>
       /\ \A i \in SessionIds : sessions'[i] # "pending"
       /\ \A s \in SocketIds : sockets'[s].readyState \notin {"CONNECTING", "OPEN"}
       /\ term'.streamSocket = 0
       /\ ~term'.sessionInFlight
       /\ term'.connectionState = "disconnected"]_vars

(* C10: when reconnect is invoked, an establishment request that is outstanding *)
(* is aborted: none is outstanding when the call reaches its first await, so    *)
(* the request it issues later is never outstanding together with an old one.   *)
C10_ReconnectAbortsEstablishment ==
  [][TermReconnect => \A i \in SessionIds : sessions'[i] # "pending"]_vars

----------------------------------------------------------------------------
(* Failure isolation and completion of the batches *)

(* The outcomes of a request that make the per-robot operation of the test batch *)
(* fail: the request rejects or answers non-2xx ("throw"), or it answers with no *)
(* results ("empty")                                                             *)
FailedOutcomes == {o \in TestOutcomes : o.kind \in {"empty", "throw"}}

(* What a failure of the operation worker w holds for robot id is allowed to do *)
(* between a state and the next: while the batch goes on its failure counter is *)
(* one higher and its success counter is the same; the batch ends only with an  *)
(* empty queue, and an ID that left the queue is the one the worker now holds;  *)
(* every robot but id and the one just taken keeps its record, its membership   *)
(* in the three activity sets and its countdown.                                *)
FailureIsolated(st, run, st2, run2, w, id) ==
  LET taken == SeqToSet(run.queue) \ SeqToSet(run2.queue)
  IN /\ run2.active => /\ run2.failureCount = run.failureCount + 1
                       /\ run2.successCount = run.successCount
     /\ ~run2.active => run.queue = <<>>
     /\ \A r \in taken : run2.active /\ run2.workers[w].robot = r
     /\ \A r \in Robots \ ({id} \cup taken) :
          /\ st2.robots[r] = st.robots[r]
          /\ InActivitySet(st2, r) = InActivitySet(st, r)
          /\ (r \in st2.testingRobotIds) = (r \in st.testingRobotIds)
          /\ (r \in st2.searchingRobotIds) = (r \in st.searchingRobotIds)
          /\ (r \in st2.fixingRobotIds) = (r \in st.fixingRobotIds)
          /\ st2.testingCountdowns[r] = st.testingCountdowns[r]

(* A failure inside runManualTests: the online pre-check reports the robot *)
(* offline, or the test request fails                                      *)
TestFailureStep(w) ==
  \/ TestOnlineCheckDone(w, "error")
  \/ \E o \in FailedOutcomes : TestRequestDone(w, o)

(* A failure inside runAutoFixCandidate: a fix command is refused, or the retest *)
(* request fails                                                                 *)
FixFailureStep(w) ==
  \/ FixCommandDone(w, FALSE)
  \/ \E o \in FailedOutcomes : FixRetestDone(w, o)

(* C11: when the per-robot operation of one robot fails (the backend call     *)
(* rejects, answers non-2xx or returns no results), the batch goes on, its    *)
(* failure counter grows by exactly one, every other queued ID is still taken *)
(* and no other robot's record or activity flag changes, in runManualTests    *)
(* and in runAutoFixCandidate alike.                                          *)
C11_FailureIsolated ==
  [][\A w \in 1..MaxRobots :
       /\ TestFailureStep(w) =>
            FailureIsolated(state, testRun, state', testRun', w, testRun.workers[w].robot)
       /\ FixFailureStep(w) =>
            FailureIsolated(state, fixRun, state', fixRun', w, fixRun.workers[w].robot)]_vars

(* C11 for runManualTests alone *)
C11_TestFailureIsolated ==
  [][\A w \in 1..MaxRobots :
       TestFailureStep(w) =>
         FailureIsolated(state, testRun, state', testRun', w, testRun.workers[w].robot)]_vars

(* C12: a batch resolves, and isTestRunInProgress (runManualTests) or            *)
(* isAutoFixInProgress (runAutoFixCandidate) is cleared, only after its queue is *)
(* empty and none of its per-robot operations is still in flight: the step that  *)
(* clears the flag starts from an empty queue with no operation in flight but    *)
(* the one that step completes, and the flag is set as long as the batch runs.   *)
C12_ResolvesAfterAllDone ==
  [][/\ (state.isTestRunInProgress /\ ~state'.isTestRunInProgress) =>
          /\ testRun.queue = <<>>
          /\ InFlight(testRun) <= 1
          /\ ~testRun'.active
     /\ (state.isAutoFixInProgress /\ ~state'.isAutoFixInProgress) =>
          /\ fixRun.queue = <<>>
          /\ InFlight(fixRun) <= 1
          /\ ~fixRun'.active
     /\ testRun'.active => state'.isTestRunInProgress
     /\ fixRun'.active => state'.isAutoFixInProgress]_vars

(* A test batch with an empty queue, one worker returned and the operation of *)
(* another still in flight: the flag is still set                             *)
C12_Witness ==
  /\ testRun.active
  /\ state.isTestRunInProgress
  /\ testRun.queue = <<>>
  /\ \E w \in DOMAIN testRun.workers : testRun.workers[w].pc = "done"
  /\ InFlight(testRun) = 1

----------------------------------------------------------------------------
(* Properties of the polling of the runtime reconciler *)

(* C13: at most one snapshot fetch of the runtime reconciler is outstanding at  *)
(* any time, and one is outstanding exactly while isRuntimeSyncInFlight is set, *)
(* so that a tick that fires meanwhile starts no fetch and merges nothing.      *)
C13_OneSnapshotFetch ==
  /\ state.runtimeFetches <= 1
  /\ state.isRuntimeSyncInFlight <=> state.runtimeFetches = 1

(* A fetch is outstanding while a robot is being tested: the ticks of the timer *)
(* that fire now are refused                                                    *)
C13_Witness ==
  /\ state.isRuntimeSyncInFlight
  /\ state.runtimeFetches = 1
  /\ state.testingRobotIds # {}

(* C14: when the snapshot fetch of a reconciliation cycle fails, state.robots,  *)
(* the three ActivitySets, the sets of backend-reported activity and the        *)
(* countdowns are exactly as before, and the guard is released with no fetch    *)
(* outstanding, so that the next tick starts a new fetch.                       *)
C14_FailedFetchChangesNothing ==
  [][syncRun'.failed =>
       /\ state'.robots = state.robots
       /\ state'.testingRobotIds = state.testingRobotIds
       /\ state'.searchingRobotIds = state.searchingRobotIds
       /\ state'.fixingRobotIds = state.fixingRobotIds
       /\ state'.autoSearchingRobotIds = state.autoSearchingRobotIds
       /\ state'.autoTestingRobotIds = state.autoTestingRobotIds
       /\ state'.autoActivityRobotIds = state.autoActivityRobotIds
       /\ state'.testingCountdowns = state.testingCountdowns
       /\ ~state'.isRuntimeSyncInFlight
       /\ state'.runtimeFetches = 0]_vars

(* A fetch has just failed while a robot was in an activity set with its *)
(* countdown running                                                     *)
C14_Witness ==
  /\ syncRun.failed
  /\ syncRun.protected # {}
  /\ \E r \in syncRun.protected : state.testingCountdowns[r] # "none"
  /\ ~state.isRuntimeSyncInFlight

----------------------------------------------------------------------------
(* Properties of the connection state of the terminal component *)

(* C15: connectionState is connected only when the session-establishment call *)
(* has succeeded and the stream the component refers to has opened; it is not *)
(* connected when the last establishment failed or the stream is not there.   *)
C15_ConnectedOnlyWhenEstablished ==
  term.connectionState = "connected" =>
    /\ term.sessionReady
    /\ term.streamSocket # 0
    /\ sockets[term.streamSocket].readyState \in {"OPEN", "CLOSING"}

(* The establishment request the component tracks is outstanding and the step *)
(* aborts it: dispose, connect and reconnect do                               *)
AbortsEstablishment ==
  /\ term.sessionConnectController # 0
  /\ sessions[term.sessionConnectController] = "pending"
  /\ (TermDispose \/ TermConnect \/ TermReconnect)

(* A _reconnectSession call waits for the establishment request the component *)
(* tracks                                                                     *)
ReconnectAwaitsEstablishment ==
  \E k \in DOMAIN callers :
    /\ callers[k].kind = "reconnect"
    /\ callers[k].wait = "session"
    /\ callers[k].on = term.sessionConnectController

(* C16, as stated: from connecting the state becomes error when the session   *)
(* establishment call fails, when the stream fails to open and when the       *)
(* establishment request is aborted.                                          *)
C16_FailureOrAbortLeadsToError ==
  [][term.connectionState = "connecting" =>
       /\ (\E request \in SessionIds : TermSessionResponse(request, FALSE)) =>
            term'.connectionState = "error"
       /\ (\E socket \in SocketIds : TermSocketFailed(socket)) =>
            term'.connectionState = "error"
       /\ AbortsEstablishment => term'.connectionState = "error"]_vars

(* C16, amended: from connecting the state becomes error when the session     *)
(* establishment call fails and when the stream fails to open. An aborted     *)
(* establishment request sets the state to disconnected; it is error after an *)
(* abort only where a reconnect waited for the aborted request.               *)
C16_AbortLeadsToDisconnected ==
  [][term.connectionState = "connecting" =>
       /\ (\E request \in SessionIds : TermSessionResponse(request, FALSE)) =>
            term'.connectionState = "error"
       /\ (\E socket \in SocketIds : TermSocketFailed(socket)) =>
            term'.connectionState = "error"
       /\ AbortsEstablishment =>
            term'.connectionState =
              (IF ReconnectAwaitsEstablishment THEN "error" ELSE "disconnected")]_vars

(* An establishment was aborted by a second connect(): its catch block has set *)
(* disconnected and its finally block has cleared the in-flight mark, while    *)
(* the request the second connect() issued is outstanding                      *)
C16_Witness ==
  /\ term.connectionState = "disconnected"
  /\ ~term.sessionInFlight
  /\ \E i \in SessionIds : sessions[i] = "pending"

(* C17: when an open stream closes while the component is live and not       *)
(* disposing, connectionState becomes disconnected if the close code is 1000 *)
(* and error for every other close code.                                     *)
C17_CloseCodeDecidesState ==
  [][\A socket \in SocketIds, clean \in BOOLEAN :
       (/\ term.mode = "live"
        /\ ~term.disposing
        /\ TermSocketClosed(socket, clean)) =>
         term'.connectionState = (IF clean THEN "disconnected" ELSE "error")]_vars

(* The stream of an established session was closed with code 1000: the state is *)
(* disconnected on a live component that still holds its session                *)
C17_Witness ==
  /\ term.connectionState = "disconnected"
  /\ term.sessionReady
  /\ term.mode = "live"
  /\ ~term.disposing
  /\ term.streamSocket = 0

(* C18: an error message on the open stream sets connectionState to error, and *)
(* from then on the state leaves error only in a reconnect, connect or dispose *)
(* step; no other step, a runCommand in particular, changes it or issues an    *)
(* establishment request.                                                      *)
C18_StreamErrorIsSticky ==
  [][/\ (\E socket \in SocketIds : TermStreamError(socket)) =>
          term'.connectionState = "error"
     /\ (/\ term.streamError
         /\ term.connectionState = "error"
         /\ ~(TermReconnect \/ TermConnect \/ TermDispose)) =>
          /\ term'.connectionState = "error"
          /\ \A i \in SessionIds : sessions'[i] = "pending" => sessions[i] = "pending"]_vars

(* C19: when the stream is not open, typed input and a resize message are *)
(* dropped silently: nothing is sent, and connectionState and every other *)
(* field of the session are as before.                                    *)
C19_DroppedSilently ==
  [][(/\ ~_isStreamOpen(Tm)
      /\ (TermHandleInput \/ TermResize)) =>
       /\ term'.sent = {}
       /\ Fields(term') = Fields(term)
       /\ sockets' = sockets
       /\ sessions' = sessions
       /\ callers' = callers]_vars

(* C19 for the resize message alone *)
C19_ResizeDroppedSilently ==
  [][(~_isStreamOpen(Tm) /\ TermResize) =>
       /\ term'.sent = {}
       /\ Fields(term') = Fields(term)
       /\ sockets' = sockets
       /\ sessions' = sessions
       /\ callers' = callers]_vars

----------------------------------------------------------------------------
(* Properties of the merge of a snapshot *)

(* C20, as stated: for every robot that is in no activity set when a snapshot *)
(* is merged, each test result the backend reported and the activity record   *)
(* equal the normalised reported values afterwards.                           *)
C20_BackendReplacesLocal ==
  [][syncRun'.applied =>
       \A id \in Robots \ syncRun'.protected :
         /\ \A t \in TestIds :
              state'.robots[id].tests[t] = normalizeStatus(syncRun'.snapshot[id].tests[t].status)
         /\ state'.robots[id].activity = normalizeRobotActivity(syncRun'.snapshot[id].activity)]_vars

(* C20, amended: for such a robot each reported test result whose source is   *)
(* one of RUNTIME_ALLOWED_SOURCES replaces the local result, a reported       *)
(* result of another source or of none leaves the local result as it was, and *)
(* the activity record equals the normalised reported one.                    *)
C20_AllowedSourcesReplaceLocal ==
  [][syncRun'.applied =>
       \A id \in Robots \ syncRun'.protected :
         /\ \A t \in TestIds :
              state'.robots[id].tests[t] =
                (IF syncRun'.snapshot[id].tests[t].source
                      \in {"manual", "live", "auto-monitor", "auto-monitor-topics"}
                 THEN normalizeStatus(syncRun'.snapshot[id].tests[t].status)
                 ELSE state.robots[id].tests[t])
         /\ state'.robots[id].activity = normalizeRobotActivity(syncRun'.snapshot[id].activity)]_vars

(* A snapshot has just been merged for a robot in no activity set: its battery *)
(* result came from the live source and is now the local one, its online       *)
(* result came without a source and the local one differs from it              *)
C20_Witness ==
  /\ syncRun.applied
  /\ \E id \in Robots \ syncRun.protected :
       /\ syncRun.snapshot[id].tests["battery"].source = "live"
       /\ state.robots[id].tests["battery"] = syncRun.snapshot[id].tests["battery"].status
       /\ syncRun.snapshot[id].tests["online"].source = ""
       /\ state.robots[id].tests["online"] # syncRun.snapshot[id].tests["online"].status

----------------------------------------------------------------------------
(* Properties of the activity sets and the countdowns *)

(* C21: a reconciliation pass (the tick that starts the fetch, the merge of the *)
(* snapshot with syncAutomatedRobotActivityFromState, the failure of the fetch) *)
(* leaves testingRobotIds, searchingRobotIds and fixingRobotIds as they were,   *)
(* whatever activity the snapshot reports: a step that changes the number of    *)
(* outstanding fetches is a step of the reconciler, and it changes none of the  *)
(* three sets.                                                                  *)
C21_ReconcilerKeepsActivitySets ==
  [][(state'.runtimeFetches # state.runtimeFetches \/ syncRun'.applied \/ syncRun'.failed) =>
       /\ state'.testingRobotIds = state.testingRobotIds
       /\ state'.searchingRobotIds = state.searchingRobotIds
       /\ state'.fixingRobotIds = state.fixingRobotIds]_vars

(* A snapshot has just been merged that reports a robot as testing: the robot is *)
(* in autoTestingRobotIds and in none of the three sets, while another robot is  *)
(* in testingRobotIds for its local test run                                     *)
C21_Witness ==
  /\ syncRun.applied
  /\ \E r \in Robots :
       /\ state.robots[r].activity.testing
       /\ r \in state.autoTestingRobotIds
       /\ ~InActivitySet(state, r)
  /\ state.testingRobotIds # {}

(* C22: in every reachable state every robot that is in testingRobotIds, *)
(* searchingRobotIds or fixingRobotIds has an entry in testingCountdowns. *)
C22_ActiveHasCountdown ==
  \A r \in Robots : InActivitySet(state, r) => state.testingCountdowns[r] # "none"

----------------------------------------------------------------------------
(* Properties of the fallback mode of the terminal component *)

(* C23: while the component is in fallback mode, connect and runCommand issue no *)
(* session-establishment request and open no stream: no step that ends in        *)
(* fallback mode asks for a connection. Each runCommand with a command that is   *)
(* not empty calls onFallbackCommand exactly once.                               *)
C23_NoConnectionInFallback ==
  [][/\ term'.mode = "fallback" => term'.requested = {}
     /\ TermRunCommandFallback => term'.fallbackCalls = 1]_vars

(* C23 for the calls of connect and runCommand that begin in fallback mode or *)
(* end in it, up to their first await                                         *)
C23_FallbackCallsIssueNoConnection ==
  [][(TermConnectFallback \/ TermRunCommandFallback) =>
       /\ term'.mode = "fallback"
       /\ term'.requested = {}
       /\ \A i \in SessionIds : sessions'[i] = "pending" => sessions[i] = "pending"
       /\ \A s \in SocketIds :
            sockets'[s].readyState = "CONNECTING" => sockets[s].readyState = "CONNECTING"
       /\ TermRunCommandFallback => term'.fallbackCalls = 1]_vars

(* C24: in fallback mode, whenever the request of the command fails (it throws *)
(* or is answered non-2xx), the simulated response is rendered and no line of  *)
(* the error level is shown.                                                   *)
C24_FailureRendersSimulation ==
  [][\A outcome \in FallbackOutcomes :
       (/\ term.mode = "fallback"
        /\ outcome.kind \in {"rejected", "throw"}
        /\ TermFallbackResponse(outcome)) =>
         /\ term'.commandLines.simulated
         /\ "err" \notin term'.commandLines.levels]_vars

(* C24 for a request that throws while neither of the two tests the simulation *)
(* prints has the status error                                                 *)
C24_ThrowRendersSimulation ==
  [][\A outcome \in FallbackOutcomes :
       (/\ term.mode = "fallback"
        /\ outcome.kind = "throw"
        /\ outcome.general # "error"
        /\ outcome.battery # "error"
        /\ TermFallbackResponse(outcome)) =>
         /\ term'.commandLines.simulated
         /\ "err" \notin term'.commandLines.levels]_vars

----------------------------------------------------------------------------
(* Properties of the reachability inference of updateRobotTestState *)

(* The results of the batch that are not results of the online test *)
NonReachability(results) == {k \in DOMAIN results : results[k].id # "online"}

(* The result carries a connectivity/authentication signature: its details hold *)
(* ssh, connect or auth, or its value is execution_error or command_error       *)
CarriesSignature(result) ==
  \/ includes(toLowerCase(result.details), "ssh")
  \/ includes(toLowerCase(result.details), "connect")
  \/ includes(toLowerCase(result.details), "auth")
  \/ toLowerCase(result.value) \in {"execution_error", "command_error"}

ConnectivityClassFailure(result) ==
  normalizeStatus(result.status) = "error" /\ CarriesSignature(result)

(* The step is a call of updateRobotTestState that took the inference branch *)
InferenceStep == ~testRun.called /\ testRun'.called /\ testRun'.inferred

(* C25, as stated: when updateRobotTestState infers and at least one result that *)
(* is not the online result is no connectivity/authentication-class failure (it  *)
(* is ok, warning, or an error without a signature), the online entry becomes    *)
(* ok/reachable.                                                                 *)
C25_CleanResultInfersReachable ==
  [][(/\ InferenceStep
      /\ \E k \in NonReachability(testRun.results) :
           ~ConnectivityClassFailure(testRun.results[k])) =>
       /\ state'.online.status = "ok"
       /\ state'.online.value = "reachable"]_vars

(* C25, amended: when updateRobotTestState infers and at least one result that *)
(* is not the online result has a status that normalises to ok or warning, the *)
(* online entry becomes ok/reachable. An error result counts for nothing here, *)
(* with or without a signature.                                                *)
C25_NonErrorResultInfersReachable ==
  [][(/\ InferenceStep
      /\ \E k \in NonReachability(testRun.results) :
           normalizeStatus(testRun.results[k].status) # "error") =>
       /\ state'.online.present
       /\ state'.online.status = "ok"
       /\ state'.online.value = "reachable"]_vars

(* Reachable was inferred from a batch that holds an error next to a result *)
(* whose status is none of the three and normalises to warning              *)
C25_Witness ==
  /\ testRun.called
  /\ testRun.inferred
  /\ state.online.status = "ok"
  /\ state.online.value = "reachable"
  /\ ~state.online.explicit
  /\ \E k \in DOMAIN testRun.results : testRun.results[k].status = "error"
  /\ \E k \in DOMAIN testRun.results : testRun.results[k].status = "failed"

(* C26: when updateRobotTestState infers and every result of the batch that is *)
(* not the online result is an error with a connectivity/authentication        *)
(* signature, the online entry becomes error/unreachable; when no such result  *)
(* is free of errors and not all of them carry a signature, the stored online  *)
(* entry is left as it was.                                                    *)
C26_AllSignaturesInferUnreachable ==
  [][InferenceStep =>
       LET results == testRun.results
           nonOnline == NonReachability(results)
           reachableRule == \E k \in nonOnline : normalizeStatus(results[k].status) # "error"
           unreachableRule == /\ nonOnline # {}
                              /\ \A k \in nonOnline : ConnectivityClassFailure(results[k])
       IN /\ unreachableRule =>
               /\ state'.online.present
               /\ state'.online.status = "error"
               /\ state'.online.value = "unreachable"
          /\ (~reachableRule /\ ~unreachableRule) => state'.online = state.online]_vars

(* Unreachable was inferred from a batch of two errors, one with a signature in *)
(* its value and one with a signature in its details                            *)
C26_Witness ==
  /\ testRun.called
  /\ testRun.inferred
  /\ state.online.status = "error"
  /\ state.online.value = "unreachable"
  /\ ~state.online.explicit
  /\ \E k \in DOMAIN testRun.results : testRun.results[k].value = "execution_error"
  /\ \E k \in DOMAIN testRun.results : testRun.results[k].details = "auth failed"

(* C27: updateRobotTestState skips the inference if and only if the batch holds *)
(* an explicit online result or the stored online result is an explicit one     *)
(* that was checked within the last 15 seconds; with a stored result that is    *)
(* absent or older and no explicit online result in the batch it infers.        *)
C27_SkipsOnlyWhenFresh ==
  [][(~testRun.called /\ testRun'.called) =>
       (~testRun'.inferred <=>
          \/ \E k \in DOMAIN testRun.results : testRun.results[k].id = "online"
          \/ /\ state.online.present
             /\ state.online.explicit
             /\ state.now - state.online.probedAt <= 15)]_vars

(* C27 for stored results that carry a timestamp: the ones the reconciler wrote *)
C27_SkipsOnlyWhenFreshTimestamp ==
  [][(/\ ~testRun.called /\ testRun'.called
      /\ state.online.present
      /\ state.online.checkedAt.finite) =>
       (~testRun'.inferred <=>
          \/ \E k \in DOMAIN testRun.results : testRun.results[k].id = "online"
          \/ state.now - state.online.probedAt <= 15)]_vars

----------------------------------------------------------------------------
(* Properties of the worker pool: starts and completions *)

RECURSIVE SumUpTo(_, _)
SumUpTo(f, n) == IF n = 0 THEN 0 ELSE f[n] + SumUpTo(f, n - 1)

(* The per-robot operations a batch has started and those that have completed: *)
(* every completion is tallied as a success or as a failure                    *)
Started(run) == SumUpTo(run.invoked, MaxRobots)
Completed(run) == run.successCount + run.failureCount

(* The pool of a batch of n IDs under parallelism P never runs ahead of its *)
(* w = min(P, n) workers                                                    *)
PoolPaced(run, n) ==
  run.active =>
    LET w == Min(run.parallelism, n)
    IN /\ Completed(run) = 0 => Started(run) = w
       /\ Started(run) <= w + Completed(run)
       /\ Started(run) <= n

----------------------------------------------------------------------------
(* Properties of normalizeStatus and clampFleetParallelism *)

StatusStrings == {JsString("ok"), JsString("warning"), JsString("error")}

(* C29: normalizeStatus returns its argument unchanged exactly when the argument *)
(* is one of the strings ok, warning, error, and the string warning for every    *)
(* other value (other casing, other strings, non-strings, null, undefined); its  *)
(* result is always one of the three strings, and normalising a normalised       *)
(* status changes nothing.                                                       *)
C29_NormalizeStatusCanonical ==
  [][\A id \in TestIds :
       /\ state'.passes[id] >= 1 =>
            /\ state'.status[id] \in StatusStrings
            /\ state'.status[id] = state'.raw[id] <=> state'.raw[id] \in StatusStrings
            /\ state'.raw[id] \notin StatusStrings => state'.status[id] = JsString("warning")
       /\ (state.passes[id] >= 1 /\ state'.passes[id] > state.passes[id]) =>
            state'.status[id] = state.status[id]]_vars

(* A status in another casing and a null status were both normalised to warning, *)
(* the first of them twice                                                       *)
C29_Witness ==
  /\ state.raw["battery"] = JsString("OK")
  /\ state.passes["battery"] = 2
  /\ state.status["battery"] = JsString("warning")
  /\ state.raw["online"] = JsNull
  /\ state.passes["online"] >= 1
  /\ state.status["online"] = JsString("warning")

(* The nearest integer of a number given in tenths, a half going up *)
RoundOf(tenths) ==
  CHOOSE k \in -10..200 : 10 * k - 5 <= tenths /\ tenths < 10 * k + 5

ClampOf(tenths) == Max(1, Min(RoundOf(tenths), 100))

(* The step is setFleetParallelism(value) *)
SetsParallelism(value) ==
  state' = [state EXCEPT !.fleetParallelism = clampFleetParallelism(value)]

(* What every reading of C30 asks for: an integer in [1, 100], the formula for a *)
(* finite number, 8 for NaN, undefined and a string that is no number, and       *)
(* max(1, min(P, n)) workers for a batch of n IDs under parallelism P            *)
ClampedAndPooled ==
  /\ state'.fleetParallelism \in 1..100
  /\ \A value \in ClampInputs : SetsParallelism(value) =>
       /\ (value.type = "number" /\ value.finite) =>
            state'.fleetParallelism = ClampOf(value.tenths)
       /\ value \in {JsNaN, JsUndefined, JsString("abc")} => state'.fleetParallelism = 8
  /\ (~testRun.active /\ testRun'.active) =>
       /\ testRun'.parallelism = state.fleetParallelism
       /\ testRun'.workerCount = Max(1, Min(state.fleetParallelism, Len(testRun'.runIds)))
       /\ DOMAIN testRun'.workers = 1..testRun'.workerCount

(* C30, as stated: clampFleetParallelism returns an integer in [1, 100], which is *)
(* max(1, min(round(v), 100)) for a numeric v and the default 8 for an input that *)
(* is not numeric (here: anything that is not a number and not a numeric string); *)
(* a batch of n IDs launches max(1, min(P, n)) workers.                           *)
C30_ClampDefaultsNonNumeric ==
  [][/\ ClampedAndPooled
     /\ \A value \in ClampInputs : SetsParallelism(value) =>
          (value \in {JsNull, JsString("")} => state'.fleetParallelism = 8)]_vars

(* What the clamp does with the inputs Number() converts: with n = Number(v),   *)
(* max(1, min(round(n), 100)) when n is finite, which includes null and the     *)
(* empty string (n = 0, result 1) and numeric strings, and the default 8 when   *)
(* n is NaN or infinite                                                         *)
C30_ClampByNumberCoercion ==
  [][/\ ClampedAndPooled
     /\ \A value \in ClampInputs : SetsParallelism(value) =>
          /\ value \in {JsNull, JsString("")} => state'.fleetParallelism = 1
          /\ value = JsString("3") => state'.fleetParallelism = 3
          /\ value = JsString("2.5") => state'.fleetParallelism = 3
          /\ value = JsString("150") => state'.fleetParallelism = 100
          /\ value = JsInfinity => state'.fleetParallelism = 8]_vars

(* A batch of one robot runs with one worker under parallelism 100 *)
C30_Witness ==
  /\ state.fleetParallelism = 100
  /\ testRun.active
  /\ testRun.parallelism = 100
  /\ Len(testRun.runIds) = 1
  /\ testRun.workerCount = 1

----------------------------------------------------------------------------
(* Properties of the monitor parallelism synchronisation *)

(* No PATCH in flight and no debounce timer pending *)
MonitorQuiesced ==
  ~state.monitorParallelismSyncInFlight /\ ~state.monitorParallelismSyncTimer

(* C31: once syncMonitorParallelismWithFleet has quiesced with its last PATCH *)
(* successful, monitorParallelism equals the clamped fleet parallelism.       *)
C31_MonitorFollowsFleet ==
  (MonitorQuiesced /\ state.lastPatch = "ok") =>
    state.monitorParallelism = Max(1, Min(state.fleetParallelism, 100))

(* C31 for the runs in which no PATCH has failed *)
C31_MonitorFollowsFleetWithoutFailure ==
  (MonitorQuiesced /\ ~state.patchFailed) =>
    state.monitorParallelism = Max(1, Min(state.fleetParallelism, 100))

----------------------------------------------------------------------------
(* Properties of the selection *)

(* The step belongs to a test batch, an auto-fix batch, the fleet online refresh *)
(* or a reconciliation pass                                                      *)
BatchOrSyncStep ==
  \/ testRun' # testRun
  \/ fixRun' # fixRun
  \/ onlineRun' # onlineRun
  \/ state'.runtimeFetches # state.runtimeFetches
  \/ syncRun'.applied
  \/ syncRun'.failed

(* C32, as stated: reconciliation passes, test batches, auto-fix batches and the *)
(* fleet online refresh leave selectedRobotIds unchanged.                        *)
C32_SelectionOnlyBySelectionActions ==
  [][BatchOrSyncStep => state'.selectedRobotIds = state.selectedRobotIds]_vars

(* C32, amended: reconciliation passes, auto-fix batches, the fleet online     *)
(* refresh and the workers of a test batch leave selectedRobotIds unchanged; a *)
(* test batch changes it only when it starts with an empty selection, and then *)
(* to the reachable robots, which are the robots it runs on.                   *)
C32_SelectionOnlyByAutoSelect ==
  [][BatchOrSyncStep =>
       \/ state'.selectedRobotIds = state.selectedRobotIds
       \/ /\ ~testRun.active
          /\ testRun'.active
          /\ state.selectedRobotIds = {}
          /\ state'.selectedRobotIds = {r \in Robots : state.robots[r].tests["online"] = "ok"}
          /\ state'.selectedRobotIds = SeqToSet(testRun'.runIds)]_vars

(* A snapshot has just been merged while a test batch runs on the one robot *)
(* that is selected                                                         *)
C32_Witness ==
  /\ syncRun.applied
  /\ testRun.active
  /\ state.selectedRobotIds = {1}
  /\ SeqToSet(testRun.runIds) = {1}

----------------------------------------------------------------------------
(* Properties of the roster *)

(* C33: a reconciliation pass never destroys a robot record: every robot ID in *)
(* state.robots before the pass is in state.robots after it, also when the     *)
(* snapshot omits the robot; a robot ID the snapshot reports and state.robots   *)
(* does not hold is added and reported as changed.                              *)
C33_PassKeepsAndAddsRobots ==
  [][syncRun'.applied =>
       \A id \in Robots :
         /\ state.robots[id].present => state'.robots[id].present
         /\ (~state.robots[id].present /\ syncRun'.snapshot[id].present) =>
              /\ state'.robots[id].present
              /\ id \in syncRun'.changedRobotIds]_vars

(* A pass has just added a robot and kept one that its snapshot omits *)
C33_Witness ==
  /\ syncRun.applied
  /\ syncRun.added # {}
  /\ \E id \in Robots : state.robots[id].present /\ ~syncRun.snapshot[id].present

----------------------------------------------------------------------------
(* Properties of the phases of runAutoFixForRobot *)

----------------------------------------------------------------------------
(* Properties of the reconciler while the schedulers are at work *)

BatchInProgress(st) ==
  st.isTestRunInProgress \/ st.isAutoFixInProgress \/ st.isOnlineRefreshInFlight

(* C35: scheduler activity does not block the reconciliation. Whenever no fetch *)
(* of the reconciler is outstanding a polling tick starts one, also while a     *)
(* test batch, a fix batch or an online refresh is in progress; and a pass that *)
(* merges a snapshot, at such a moment or not, gives every robot that is in no  *)
(* activity set the activity of the snapshot and the status of every result of  *)
(* the snapshot that comes from an allowed source.                              *)
C35_PassNotBlockedByBatches ==
  /\ [](~state.isRuntimeSyncInFlight => ENABLED Fleet(RuntimeSyncTick))
  /\ [][syncRun'.applied =>
          \A id \in Robots :
            ~InActivitySet(state, id) =>
              /\ state'.robots[id].activity = syncRun'.snapshot[id].activity
              /\ \A t \in TestIds :
                   state'.robots[id].tests[t] =
                     IF syncRun'.snapshot[id].tests[t].source \in RUNTIME_ALLOWED_SOURCES
                     THEN normalizeStatus(syncRun'.snapshot[id].tests[t].status)
                     ELSE state.robots[id].tests[t]]_vars

(* A pass has just been merged while a batch or an online refresh is in progress *)
(* and another robot is in an activity set: it gave a robot that is in no set a  *)
(* result of the online test other than the one the other robot has              *)
C35_Witness ==
  /\ syncRun.applied
  /\ BatchInProgress(state)
  /\ \E id \in Robots \ syncRun.protected, other \in syncRun.protected :
       /\ state.robots[id].tests["online"] = syncRun.snapshot[id].tests["online"].status
       /\ state.robots[id].tests["online"] # state.robots[other].tests["online"]
       /\ syncRun.snapshot[other].tests["online"].status = syncRun.snapshot[id].tests["online"].status

----------------------------------------------------------------------------
(* Properties of the counters of a batch *)

(* The IDs a batch has taken from its queue whose operation has not ended *)
InOperation(run) ==
  {w \in DOMAIN run.workers : run.workers[w].pc \in {"precheck", "testing", "command", "settle"}}

(* C36: when a runManualTests or runAutoFixCandidate batch resolves,          *)
(* successCount + failureCount is the number of queued robot IDs; and while a *)
(* batch runs the two counters together count exactly the IDs taken from the  *)
(* queue whose operation has ended, whichever way it ended.                   *)
C36_EveryQueuedRobotCounted ==
  /\ testRun.uncounted = 0
  /\ fixRun.uncounted = 0
  /\ testRun.active =>
       testRun.successCount + testRun.failureCount
         = Len(testRun.runIds) - Len(testRun.queue) - Cardinality(InOperation(testRun))
  /\ fixRun.active =>
       fixRun.successCount + fixRun.failureCount
         = Len(fixRun.robotIds) - Len(fixRun.queue) - Cardinality(InOperation(fixRun))

(* A batch over every robot has just resolved, with a robot among them that is *)
(* not in state.robots and one that is                                         *)
C36_Witness ==
  /\ syncRun.resolved \in {"tests", "fix"}
  /\ syncRun.queued = MaxRobots
  /\ \E r \in Robots : ~state.robots[r].present
  /\ \E r \in Robots : state.robots[r].present

----------------------------------------------------------------------------
(* Properties of the fleet-wide online refresh *)

(* C37: no write to a robot record is lost to a concurrent online refresh. The *)
(* step in which runOnlineCheckForAllRobots completes changes, in the robot    *)
(* records as they are at that moment, the result of the online test only: the *)
(* other results and the activity, whoever wrote them while the refresh was    *)
(* awaiting its requests, are kept.                                            *)
C37_RefreshKeepsConcurrentWrites ==
  [][(onlineRun.pc # "idle" /\ onlineRun'.pc = "idle") =>
       \A r \in Robots :
         [state'.robots[r] EXCEPT !.tests["online"] = state.robots[r].tests["online"]]
           = state.robots[r]]_vars

(* C38: a fix batch never overlaps a test batch or a fleet online refresh, and *)
(* at most one batch of each kind is running: isAutoFixInProgress is not true  *)
(* together with isTestRunInProgress or isOnlineRefreshInFlight, each flag is  *)
(* true exactly while its batch is running, and a batch starts only in a state *)
(* in which none of its kind is running and no batch it excludes.              *)
C38_FixBatchRunsAlone ==
  [][/\ ~(state'.isAutoFixInProgress /\ state'.isTestRunInProgress)
     /\ ~(state'.isAutoFixInProgress /\ state'.isOnlineRefreshInFlight)
     /\ state'.isAutoFixInProgress = fixRun'.active
     /\ state'.isTestRunInProgress = testRun'.active
     /\ state'.isOnlineRefreshInFlight = (onlineRun'.pc # "idle")
     /\ (\E robotIds \in RunIdLists, candidate \in CommandCandidates :
           RunAutoFixCandidate(robotIds, candidate)) =>
          (~fixRun.active /\ ~testRun.active /\ onlineRun.pc = "idle")
     /\ (\E runIds \in RunIdLists : RunManualTests(runIds)) =>
          (~testRun.active /\ ~fixRun.active)
     /\ RunOnlineCheckForAllRobots => (onlineRun.pc = "idle" /\ ~fixRun.active)]_vars

(* A fix batch is in progress alone, with a command in flight and a robot that *)
(* waits in its queue                                                          *)
C38_Witness ==
  /\ state.isAutoFixInProgress
  /\ ~state.isTestRunInProgress
  /\ ~state.isOnlineRefreshInFlight
  /\ \E w \in DOMAIN fixRun.workers : fixRun.workers[w].pc = "command"
  /\ Len(fixRun.queue) > 0

----------------------------------------------------------------------------
(* Properties of the disposed terminal component *)

(* C39: after dispose() and until the next connect(), connectionState stays    *)
(* disconnected, no stream is opened and no establishment request is started,  *)
(* whichever suspended call of connect, runCommand or reconnect resumes: every *)
(* step that ends with the component disposed ends in state disconnected and   *)
(* has asked for no connection.                                                *)
C39_DisposedStaysDisconnected ==
  [][term'.disposing =>
       /\ term'.connectionState = "disconnected"
       /\ term'.requested = {}]_vars

----------------------------------------------------------------------------
(* Completion of the calls that await the live session *)

(* C40: every call that awaits the live session resolves once its requests   *)
(* complete, fail or are aborted. In particular no step (of reconnect, of    *)
(* dispose, of a switch to fallback mode) that closes the stream while it is *)
(* opening leaves a call waiting for a stream-open result that can no longer *)
(* arrive.                                                                   *)
C40_NoCallLeftPending == term.abandoned = {}

====
